---- MODULE Spec2Model ----
(***************************************************************************)
(* expo-toast: the native toast queue (ios/ToastQueue.swift), the native   *)
(* module that drives it (ios/ExpoToastModule.swift), the part of the      *)
(* presenter that reports back to the module, and the JS runtime           *)
(* (src/toast.ts) with its dedupe cache.                                   *)
(*                                                                         *)
(* Spec      : the native side.  Calls arrive on the main queue one at a   *)
(*             time (runOnQueue(.main)); presenter animations complete     *)
(*             asynchronously.                                             *)
(* SpecShows : show calls only, distinct ids, one edge, fixed limits.      *)
(* SpecJS    : the JS runtime in front of the native module; the native    *)
(*             module is the call log the tests' stub keeps.               *)
(* SpecOrder : shows with distinct ids on both edges, dismiss() without an *)
(*             id and the presenter's completions.                         *)
(* SpecConfig: configure calls only.                                       *)
(* SpecApp   : the JS runtime and the native module together.              *)
(* SpecGate  : one call of the platform gate.                              *)
(* SpecRuntime: the toast API on a supported or unsupported runtime.       *)
(* SpecDefaults: configure and show calls, with the records show sends.    *)
(* SpecPromise: one toast.promise call and the settling of its promise.    *)
(* SpecAction: shows, transitions and the dismiss and action-press         *)
(*             listeners.                                                  *)
(* SpecTimer : the native module with the presenter's show animations and  *)
(*             dismiss timers.                                             *)
(* SpecCache : show calls with distinct dedupe keys inside one window,     *)
(*             past the capacity of the dedupe cache.                      *)
(* SpecDrain : the native side with a presenter that completes every       *)
(*             dismiss animation, and no show call while a dismissAll      *)
(*             drains.                                                     *)
(* SpecPress : the JS runtime and the native module with presses of the    *)
(*             action button.                                              *)
(* SpecPending: the native side with a presenter whose timers fire and     *)
(*             whose dismiss animations complete.                          *)
(* SpecFifo  : shows with distinct ids, dismiss, dismissAll and the        *)
(*             presenter's completions.                                    *)
(* SpecCallbacks: the JS listeners under any sequence of show and dismiss  *)
(*             events.                                                     *)
(***************************************************************************)
EXTENDS Integers, Sequences, FiniteSets, TLC

\* ------------------------------------------------------------------ bounds
NumIds == 4
NumNativeIds == 2
MaxVisibleCfg == 2
MaxQueueCfg == 2
MaxToasts == 3
MaxInFlight == 1
MaxTime == 3
MaxWindow == 2
NumKeys == 2
NumExplicitIds == 2
MaxGenerated == 1
MaxShowCalls == 2
NumHandlers == 2
MaxHalves == 3
MaxConfigureCalls == 2
MaxAppShows == 2
MaxTransitions == 2
MaxMajor == 27
MaxNativeCalls == 3
MaxOptionFields == 2
MaxActionShows == 2
MaxShowAnimations == 1
MaxTimerInFlight == 2
ExtraKeys == 2
MaxCallbackEvents == 4

\* ------------------------------------------------------- program constants
DEFAULT_MAX_VISIBLE == 3
DEFAULT_MAX_QUEUE == 50
MAX_DEDUPE_ENTRIES == 500
SHORT_MS == 2000
DEFAULT_MS == 3000
LONG_MS == 4500
INFINITE_MS == -1

\* Toast ids, messages and dedupe keys are strings; 0 stands for the empty
\* string '' (falsy in JS), NoId for nil / undefined / null.  NativeIds are the
\* ids the callers of Spec use.
Ids == 0..(NumIds - 1)
NativeIds == 0..(NumNativeIds - 1)
NoId == -1
EmptyString == 0
Positions == {"top", "bottom"}
DropPolicies == {"oldest", "newest"}

\* a toast record: its id, its edge, its action label (NoId: none) and its
\* duration in milliseconds (negative: infinite)
NoPayload == [id |-> NoId, position |-> "none", actionLabel |-> NoId, durationMs |-> 0]
NativePayloads ==
  [id : NativeIds, position : Positions, actionLabel : {NoId}, durationMs : {DEFAULT_MS}]
NoInsertion == [payload |-> NoPayload, placement |-> "none"]

VARIABLES
  \* ToastQueue
  maxVisiblePerPosition, maxQueuePerPosition, dropPolicy,
  visibleTop, visibleBottom, pendingTop, pendingBottom, payloadsById,
  \* ExpoToastModule
  isDismissingAll,
  \* ToastPresenter
  toastViewsById, dismissals,
  \* what the last step emitted to JS and handed to the presenter
  events, cmds,
  \* toast.ts: module state, the clock (Date.now()), whether the runtime is
  \* supported, the calls made to the native module and the value returned by
  \* the last call
  config, recentDedupe, callbacks, activeToasts, idCounter,
  listenersInitialized, queueConfigSignature,
  now, supported, showCalls, queueConfigCalls, returned,
  \* history: per dedupe key, the time and id of the last show call that reached
  \* the native module since dedupeWindowMs was last changed
  firstShown,
  \* history: per dedupe key, the time and id of the last dismiss event that
  \* arrived while the cache entry of the key mapped to the dismissed id
  dismissedAt,
  \* history: the ids that were visible at the last dismissAll call and have
  \* not been reported dismissed since
  drainIds,
  \* SpecShows: the ids shown so far, in call order, and the edge in use
  shown, showEdge,
  \* history (SpecOrder): the ids now in a visible list, in the order in which
  \* they entered it, each with the way it entered ("show" or "promotion")
  enteredVisible,
  \* history (SpecConfig): the argument of the last configure call and the
  \* number of configure calls so far
  lastNext, configureCount,
  \* history (SpecApp): per registered id, the kind of the action option of
  \* the show call that created the record and of each transition since
  actionTrace,
  \* SpecGate: the arguments of a runtimeSupportsToastFor call, whether it was
  \* made, and its result
  gateOs, gateVersion, gateCalled, gateResult,
  \* what ExpoToastModule.isSupported() answers
  moduleSupported,
  \* history (SpecRuntime): the calls made to the native module, in order, and
  \* the last call made to the toast API
  nativeCalls, lastCall,
  \* history (SpecDefaults): the options of the last show call that reached
  \* the native module and the record it sent
  lastOptions, lastRecord,
  \* SpecPromise: one toast.promise call: the promise `work`, the message
  \* options, the id show returned, the reaction that runs next and the state
  \* of the promise returned to the caller
  promiseRun,
  \* the id of the action-press event the last step handled (NoId: none) and
  \* the action callbacks it invoked, each with its argument
  pressed, invoked,
  \* history (SpecAction): per id with metadata, the values of the show call
  \* that registered it, overridden by the transitions since, and its action
  \* callback
  currentValues,
  \* ToastPresenter: payloadsById, dismissTimersById (per id the armed timer
  \* and the duration it was computed from) and, per id, the records captured
  \* by the show animations whose completion has not run yet
  presenterPayloadsById, dismissTimersById, showAnimations,
  \* history (SpecCallbacks): the onToastShow and onToastDismiss events the
  \* listeners received, each with the callback it invoked (0: none) and the
  \* toast that callback was registered for
  callbackLog

queueVars == <<maxVisiblePerPosition, maxQueuePerPosition, dropPolicy,
               visibleTop, visibleBottom, pendingTop, pendingBottom, payloadsById>>
presenterVars == <<toastViewsById, dismissals>>
outVars == <<events, cmds>>
showsVars == <<shown, showEdge, enteredVisible>>
configVars == <<lastNext, configureCount>>
gateVars == <<gateOs, gateVersion, gateCalled, gateResult>>
runtimeVars == <<moduleSupported, nativeCalls, lastCall>>
defaultsVars == <<lastOptions, lastRecord>>
actionVars == <<pressed, invoked, currentValues>>
timerVars == <<presenterPayloadsById, dismissTimersById, showAnimations>>
moreVars == <<actionVars, timerVars, callbackLog>>
extraVars == <<gateVars, runtimeVars, defaultsVars, promiseRun, moreVars>>
histVars == <<drainIds, showsVars, configVars, actionTrace, extraVars>>
nativeVars == <<queueVars, isDismissingAll, presenterVars, outVars>>
jsVars == <<config, recentDedupe, callbacks, activeToasts, idCounter,
            listenersInitialized, queueConfigSignature,
            now, supported, showCalls, queueConfigCalls, returned,
            firstShown, dismissedAt>>
vars == <<nativeVars, histVars, jsVars>>

\* ------------------------------------------------------------- sequences
RECURSIVE SeqToSet(_)
SeqToSet(s) == IF s = <<>> THEN {} ELSE {Head(s)} \cup SeqToSet(Tail(s))

RECURSIVE RemoveAll(_, _)
RemoveAll(s, x) ==
  IF s = <<>> THEN <<>>
  ELSE IF Head(s) = x THEN RemoveAll(Tail(s), x)
  ELSE <<Head(s)>> \o RemoveAll(Tail(s), x)

\* remove(at:), and a variant that removes nothing
RemoveAtNothing(s, i) == s
RemoveAt(s, i) == SubSeq(s, 1, i - 1) \o SubSeq(s, i + 1, Len(s))

RECURSIVE IdsOf(_)
IdsOf(ps) == IF ps = <<>> THEN <<>> ELSE <<Head(ps).id>> \o IdsOf(Tail(ps))

\* firstIndex(where: { $0.id == id }); 0 when there is none
FirstIndexOfId(ps, id) ==
  IF \E i \in 1..Len(ps) : ps[i].id = id
  THEN CHOOSE i \in 1..Len(ps) : ps[i].id = id /\ \A j \in 1..(i - 1) : ps[j].id # id
  ELSE 0

Count(s, x) == Cardinality({i \in 1..Len(s) : s[i] = x})

\* ------------------------------------------------------------ ToastQueue
\* near edge: top inserts at index 0, bottom appends; and a variant that
\* appends on both edges
InsertNearEdgeAppend(position, visible, id) == Append(visible, id)
InsertNearEdge(position, visible, id) ==
  IF position = "top" THEN <<id>> \o visible ELSE Append(visible, id)

\* far edge: top appends, bottom inserts at index 0
InsertFarEdge(position, visible, id) ==
  IF position = "top" THEN Append(visible, id) ELSE <<id>> \o visible

HasVisibleRoom(visible, maxVisible) == Len(visible) < maxVisible

\* pendingTop.count >= maxQueuePerPosition, and a variant that is off by one
PendingIsFullStrict(pending, maxQueue) == Len(pending) > maxQueue
PendingIsFull(pending, maxQueue) == Len(pending) >= maxQueue

\* dropFromPending, and a variant with the two policies exchanged
DropFromPendingSwapped(pending, policy) ==
  IF pending = <<>> THEN [rest |-> pending, removed |-> NoPayload]
  ELSE IF policy = "oldest"
       THEN [rest |-> SubSeq(pending, 1, Len(pending) - 1), removed |-> pending[Len(pending)]]
       ELSE [rest |-> Tail(pending), removed |-> Head(pending)]
DropFromPending(pending, policy) ==
  IF pending = <<>> THEN [rest |-> pending, removed |-> NoPayload]
  ELSE IF policy = "oldest"
       THEN [rest |-> Tail(pending), removed |-> Head(pending)]
       ELSE [rest |-> SubSeq(pending, 1, Len(pending) - 1), removed |-> pending[Len(pending)]]

RemoveValue(reg, id) == [reg EXCEPT ![id] = NoPayload]

\* maxQueuePerPosition == 0: queuing is off; and a variant that never says so
QueueDisabledNever(maxQueue) == FALSE
QueueDisabled(maxQueue) == maxQueue = 0

\* enqueue, one edge's branch of the switch: the edge's visible list and pending
\* queue and the registry after the call, and the tuple (insertion, dropped)
EnqueueOn(payload, visible, pending, reg, maxVisible, maxQueue, policy) ==
  LET stored == [reg EXCEPT ![payload.id] = payload]
      rejected == [visible |-> visible, pending |-> pending,
                   reg |-> RemoveValue(stored, payload.id),
                   insertion |-> NoInsertion, dropped |-> payload]
  IN
  IF HasVisibleRoom(visible, maxVisible)
  THEN [visible |-> InsertNearEdge(payload.position, visible, payload.id),
        pending |-> pending, reg |-> stored,
        insertion |-> [payload |-> payload, placement |-> "nearEdge"],
        dropped |-> NoPayload]
  ELSE IF QueueDisabled(maxQueue) THEN rejected
  ELSE IF PendingIsFull(pending, maxQueue) /\ policy = "newest" THEN rejected
  ELSE LET d == IF PendingIsFull(pending, maxQueue)
                THEN DropFromPending(pending, policy)
                ELSE [rest |-> pending, removed |-> NoPayload]
       IN IF d.removed # NoPayload /\ d.removed.id = payload.id
          THEN [visible |-> visible, pending |-> d.rest,
                reg |-> RemoveValue(stored, payload.id),
                insertion |-> NoInsertion, dropped |-> d.removed]
          ELSE [visible |-> visible, pending |-> Append(d.rest, payload),
                reg |-> stored,
                insertion |-> NoInsertion, dropped |-> d.removed]

\* the whole queue as a record, so that operations are functions of it
Queue ==
  [maxVisible |-> maxVisiblePerPosition, maxQueue |-> maxQueuePerPosition,
   policy |-> dropPolicy,
   visibleTop |-> visibleTop, visibleBottom |-> visibleBottom,
   pendingTop |-> pendingTop, pendingBottom |-> pendingBottom,
   reg |-> payloadsById]

SetQueue(q) ==
  /\ maxVisiblePerPosition' = q.maxVisible
  /\ maxQueuePerPosition' = q.maxQueue
  /\ dropPolicy' = q.policy
  /\ visibleTop' = q.visibleTop
  /\ visibleBottom' = q.visibleBottom
  /\ pendingTop' = q.pendingTop
  /\ pendingBottom' = q.pendingBottom
  /\ payloadsById' = q.reg

Enqueue(q, payload) ==
  IF payload.position = "top"
  THEN LET r == EnqueueOn(payload, q.visibleTop, q.pendingTop, q.reg,
                          q.maxVisible, q.maxQueue, q.policy)
       IN [queue |-> [q EXCEPT !.visibleTop = r.visible, !.pendingTop = r.pending,
                               !.reg = r.reg],
           insertion |-> r.insertion, dropped |-> r.dropped]
  ELSE LET r == EnqueueOn(payload, q.visibleBottom, q.pendingBottom, q.reg,
                          q.maxVisible, q.maxQueue, q.policy)
       IN [queue |-> [q EXCEPT !.visibleBottom = r.visible, !.pendingBottom = r.pending,
                               !.reg = r.reg],
           insertion |-> r.insertion, dropped |-> r.dropped]

\* trimPendingQueue, and a variant that drops one record at most
TrimPendingQueueOnce(pending, maxQueue, policy) ==
  IF maxQueue < 0 \/ Len(pending) <= maxQueue \/ pending = <<>>
  THEN [rest |-> pending, removed |-> <<>>]
  ELSE LET d == DropFromPending(pending, policy)
       IN [rest |-> d.rest, removed |-> <<d.removed>>]
RECURSIVE TrimPendingQueue(_, _, _)
TrimPendingQueue(pending, maxQueue, policy) ==
  IF maxQueue < 0 THEN [rest |-> pending, removed |-> <<>>]
  ELSE IF Len(pending) > maxQueue
  THEN LET d == DropFromPending(pending, policy)
       IN IF d.removed = NoPayload THEN [rest |-> pending, removed |-> <<>>]
          ELSE LET t == TrimPendingQueue(d.rest, maxQueue, policy)
               IN [rest |-> t.rest, removed |-> <<d.removed>> \o t.removed]
  ELSE [rest |-> pending, removed |-> <<>>]

RECURSIVE RemoveValues(_, _)
RemoveValues(reg, ps) ==
  IF ps = <<>> THEN reg ELSE RemoveValues(RemoveValue(reg, Head(ps).id), Tail(ps))

UpdateConfiguration(q, maxVisible, maxQueue, policy) ==
  LET t == TrimPendingQueue(q.pendingTop, maxQueue, policy)
      b == TrimPendingQueue(q.pendingBottom, maxQueue, policy)
      dropped == t.removed \o b.removed
  IN [queue |-> [q EXCEPT !.maxVisible = maxVisible, !.maxQueue = maxQueue,
                          !.policy = policy,
                          !.pendingTop = t.rest, !.pendingBottom = b.rest,
                          !.reg = RemoveValues(q.reg, dropped)],
      dropped |-> dropped]

ContainsVisible(q, id) ==
  id \in SeqToSet(q.visibleTop) \/ id \in SeqToSet(q.visibleBottom)

\* hasVisibleToasts, and a variant that looks at the top edge only
HasVisibleToastsTopOnly(q) == q.visibleTop # <<>>
HasVisibleToasts(q) == q.visibleTop # <<>> \/ q.visibleBottom # <<>>

VisibleIds(q) == q.visibleTop \o q.visibleBottom

PendingPayloads(q) == q.pendingTop \o q.pendingBottom

\* removePending(id:): the queue without the first pending record of that id
RemovePending(q, id) ==
  LET it == FirstIndexOfId(q.pendingTop, id)
      ib == FirstIndexOfId(q.pendingBottom, id)
  IN IF it # 0
     THEN [queue |-> [q EXCEPT !.pendingTop = RemoveAt(q.pendingTop, it)],
           removed |-> q.pendingTop[it]]
     ELSE IF ib # 0
     THEN [queue |-> [q EXCEPT !.pendingBottom = RemoveAt(q.pendingBottom, ib)],
           removed |-> q.pendingBottom[ib]]
     ELSE [queue |-> q, removed |-> NoPayload]

PopFirstPending(q) ==
  IF q.pendingTop # <<>>
  THEN [queue |-> [q EXCEPT !.pendingTop = Tail(q.pendingTop)],
        removed |-> Head(q.pendingTop)]
  ELSE IF q.pendingBottom # <<>>
  THEN [queue |-> [q EXCEPT !.pendingBottom = Tail(q.pendingBottom)],
        removed |-> Head(q.pendingBottom)]
  ELSE [queue |-> q, removed |-> NoPayload]

\* dismissTarget(id:): kind is "visible", "pending" or "none"
DismissTarget(q, id) ==
  LET none == [queue |-> q, kind |-> "none", id |-> NoId, removed |-> NoPayload]
      pendingHit(r) ==
        [queue |-> [r.queue EXCEPT !.reg = RemoveValue(r.queue.reg, r.removed.id)],
         kind |-> "pending", id |-> r.removed.id, removed |-> r.removed]
  IN
  IF id # NoId
  THEN IF ContainsVisible(q, id)
       THEN [queue |-> q, kind |-> "visible", id |-> id, removed |-> NoPayload]
       ELSE LET r == RemovePending(q, id)
            IN IF r.removed # NoPayload THEN pendingHit(r) ELSE none
  ELSE IF q.visibleTop # <<>>
       THEN [queue |-> q, kind |-> "visible", id |-> Head(q.visibleTop),
             removed |-> NoPayload]
  ELSE IF q.visibleBottom # <<>>
       THEN [queue |-> q, kind |-> "visible",
             id |-> q.visibleBottom[Len(q.visibleBottom)], removed |-> NoPayload]
  ELSE LET r == PopFirstPending(q)
       IN IF r.removed # NoPayload THEN pendingHit(r) ELSE none

\* guard allowPromotion, !pending.isEmpty, and a variant that ignores allowPromotion
MayPromoteAlways(allowPromotion, pending) == pending # <<>>
MayPromote(allowPromotion, pending) == allowPromotion /\ pending # <<>>

CompleteVisibleDismiss(q, id, allowPromotion) ==
  LET removed == q.reg[id]
      reg1 == RemoveValue(q.reg, id)
  IN
  IF removed = NoPayload
  THEN [queue |-> q, removed |-> NoPayload, promoted |-> NoInsertion]
  ELSE IF removed.position = "top"
  THEN LET vis == RemoveAll(q.visibleTop, id)
       IN IF ~MayPromote(allowPromotion, q.pendingTop)
          THEN [queue |-> [q EXCEPT !.visibleTop = vis, !.reg = reg1],
                removed |-> removed, promoted |-> NoInsertion]
          ELSE LET promoted == Head(q.pendingTop)
               IN [queue |-> [q EXCEPT !.visibleTop = InsertFarEdge("top", vis, promoted.id),
                                       !.pendingTop = Tail(q.pendingTop),
                                       !.reg = reg1],
                   removed |-> removed,
                   promoted |-> [payload |-> promoted, placement |-> "farEdge"]]
  ELSE LET vis == RemoveAll(q.visibleBottom, id)
       IN IF ~MayPromote(allowPromotion, q.pendingBottom)
          THEN [queue |-> [q EXCEPT !.visibleBottom = vis, !.reg = reg1],
                removed |-> removed, promoted |-> NoInsertion]
          ELSE LET promoted == Head(q.pendingBottom)
               IN [queue |-> [q EXCEPT !.visibleBottom =
                                          InsertFarEdge("bottom", vis, promoted.id),
                                       !.pendingBottom = Tail(q.pendingBottom),
                                       !.reg = reg1],
                   removed |-> removed,
                   promoted |-> [payload |-> promoted, placement |-> "farEdge"]]

ReplaceById(ps, payload) ==
  LET i == FirstIndexOfId(ps, payload.id)
  IN IF i = 0 THEN ps ELSE [ps EXCEPT ![i] = payload]

UpdatePayload(q, payload) ==
  IF q.reg[payload.id] = NoPayload THEN q
  ELSE [q EXCEPT !.reg = [q.reg EXCEPT ![payload.id] = payload],
                 !.pendingTop = ReplaceById(q.pendingTop, payload),
                 !.pendingBottom = ReplaceById(q.pendingBottom, payload)]

ClearPending(q) ==
  [q EXCEPT !.reg = RemoveValues(RemoveValues(q.reg, q.pendingTop), q.pendingBottom),
            !.pendingTop = <<>>, !.pendingBottom = <<>>]

\* --------------------------------------------------------- ToastPresenter
\* present(_:): a second view for an id that already has one is not created
PresenterPresent(views, insertion) == views \cup {insertion.payload.id}

\* dismiss(id:reason:): starts a dismiss animation when the id has a view; its
\* completion is DismissComplete
PresenterDismiss(inflight, views, id, reason) ==
  IF id \in views THEN [inflight EXCEPT ![id] = Append(@, reason)] ELSE inflight

RECURSIVE PresenterDismissEach(_, _, _, _)
PresenterDismissEach(inflight, views, ids, reason) ==
  IF ids = <<>> THEN inflight
  ELSE PresenterDismissEach(PresenterDismiss(inflight, views, Head(ids), reason),
                            views, Tail(ids), reason)

PresentCmd(insertion) ==
  [cmd |-> "present", id |-> insertion.payload.id, arg |-> insertion.placement]
DismissCmd(id, reason) == [cmd |-> "dismiss", id |-> id, arg |-> reason]
TransitionCmd(id) == [cmd |-> "transition", id |-> id, arg |-> "none"]

RECURSIVE DismissCmds(_, _)
DismissCmds(ids, reason) ==
  IF ids = <<>> THEN <<>>
  ELSE <<DismissCmd(Head(ids), reason)>> \o DismissCmds(Tail(ids), reason)

\* --------------------------------------------------------- ExpoToastModule
DismissEvent(id, reason) == [name |-> "onToastDismiss", id |-> id, reason |-> reason]

RECURSIVE DismissEvents(_, _)
DismissEvents(ps, reason) ==
  IF ps = <<>> THEN <<>>
  ELSE <<DismissEvent(Head(ps).id, reason)>> \o DismissEvents(Tail(ps), reason)

\* a record the queue dropped is reported dismissed with reason "replaced"
DroppedEvents(ps) == DismissEvents(SelectSeq(ps, LAMBDA p : p # NoPayload), "replaced")

TotalQueued ==
  Len(visibleTop) + Len(visibleBottom) + Len(pendingTop) + Len(pendingBottom)

InFlightRoom(ids) ==
  \A i \in SeqToSet(ids) :
    i \in toastViewsById => Len(dismissals[i]) + Count(ids, i) <= MaxInFlight

\* AsyncFunction("show")
NativeShow(payload) ==
  /\ LET r == Enqueue(Queue, payload)
     IN /\ SetQueue(r.queue)
        /\ toastViewsById' = IF r.insertion # NoInsertion
                             THEN PresenterPresent(toastViewsById, r.insertion)
                             ELSE toastViewsById
        /\ cmds' = IF r.insertion # NoInsertion THEN <<PresentCmd(r.insertion)>> ELSE <<>>
        /\ events' = DroppedEvents(<<r.dropped>>)
  /\ UNCHANGED <<isDismissingAll, dismissals>>

\* AsyncFunction("dismiss")
NativeDismiss(id) ==
  LET t == DismissTarget(Queue, id)
  IN /\ t.kind = "visible" => InFlightRoom(<<t.id>>)
     /\ SetQueue(t.queue)
     /\ dismissals' = IF t.kind = "visible"
                      THEN PresenterDismiss(dismissals, toastViewsById, t.id, "programmatic")
                      ELSE dismissals
     /\ cmds' = IF t.kind = "visible" THEN <<DismissCmd(t.id, "programmatic")>> ELSE <<>>
     /\ events' = IF t.kind = "pending"
                  THEN <<DismissEvent(t.removed.id, "programmatic")>> ELSE <<>>
     /\ UNCHANGED <<isDismissingAll, toastViewsById>>

\* a ToastTransitionRecord: actionLabel nil (NoId) or a label, clearAction,
\* and durationMs nil (<<>>) or a number (<<ms>>)
NoLabelChange(id) ==
  [id |-> id, actionLabel |-> NoId, clearAction |-> FALSE, durationMs |-> <<>>]

\* mergeTransition: id and position are always those of the current record;
\* and a variant that ignores clearAction
MergeTransitionNoClear(current, transition) ==
  [id |-> current.id, position |-> current.position,
   actionLabel |-> IF transition.actionLabel # NoId THEN transition.actionLabel
                   ELSE current.actionLabel,
   durationMs |-> IF transition.durationMs # <<>> THEN transition.durationMs[1]
                  ELSE current.durationMs]
MergeTransition(current, transition) ==
  [id |-> current.id, position |-> current.position,
   actionLabel |-> IF transition.clearAction THEN NoId
                   ELSE IF transition.actionLabel # NoId THEN transition.actionLabel
                   ELSE current.actionLabel,
   durationMs |-> IF transition.durationMs # <<>> THEN transition.durationMs[1]
                  ELSE current.durationMs]

\* AsyncFunction("transition")
NativeTransition(transition) ==
  /\ IF payloadsById[transition.id] = NoPayload
     THEN UNCHANGED queueVars /\ cmds' = <<>>
     ELSE LET next == MergeTransition(payloadsById[transition.id], transition)
              q == UpdatePayload(Queue, next)
          IN /\ SetQueue(q)
             /\ cmds' = IF ContainsVisible(q, next.id) THEN <<TransitionCmd(next.id)>> ELSE <<>>
  /\ events' = <<>>
  /\ UNCHANGED <<isDismissingAll, presenterVars>>

\* AsyncFunction("dismissAll")
NativeDismissAll ==
  LET pending == PendingPayloads(Queue)
      q == ClearPending(Queue)
      ids == VisibleIds(q)
  IN /\ InFlightRoom(ids)
     /\ SetQueue(q)
     /\ events' = DismissEvents(pending, "programmatic")
     /\ dismissals' = PresenterDismissEach(dismissals, toastViewsById, ids, "programmatic")
     /\ cmds' = DismissCmds(ids, "programmatic")
     /\ isDismissingAll' = HasVisibleToasts(q)
     /\ UNCHANGED toastViewsById

\* AsyncFunction("setQueueConfig")
NativeSetQueueConfig(maxVisible, maxQueue, policy) ==
  LET r == UpdateConfiguration(Queue, maxVisible, maxQueue, policy)
  IN /\ SetQueue(r.queue)
     /\ events' = DroppedEvents(r.dropped)
     /\ cmds' = <<>>
     /\ UNCHANGED <<isDismissingAll, presenterVars>>

\* toastDidDismiss(id:reason:), after the presenter removed the view
ToastDidDismiss(id, reason) ==
  LET c == CompleteVisibleDismiss(Queue, id, ~isDismissingAll)
      views == toastViewsById \ {id}
  IN /\ SetQueue(c.queue)
     /\ events' = <<DismissEvent(id, reason)>>
     /\ toastViewsById' = IF c.promoted # NoInsertion
                          THEN PresenterPresent(views, c.promoted) ELSE views
     /\ cmds' = IF c.promoted # NoInsertion THEN <<PresentCmd(c.promoted)>> ELSE <<>>
     /\ isDismissingAll' = IF isDismissingAll /\ ~HasVisibleToasts(c.queue)
                           THEN FALSE ELSE isDismissingAll

\* the completion of a dismiss animation of the presenter
DismissComplete(id, i) ==
  /\ i \in 1..Len(dismissals[id])
  /\ dismissals' = [dismissals EXCEPT ![id] = RemoveAt(@, i)]
  /\ ToastDidDismiss(id, dismissals[id][i])

\* a swipe (handlePan) or a fired dismiss timer: the presenter dismisses a toast
\* it shows, unasked
PresenterInitiatedDismiss(id, reason) ==
  /\ id \in toastViewsById
  /\ Len(dismissals[id]) < MaxInFlight
  /\ dismissals' = PresenterDismiss(dismissals, toastViewsById, id, reason)
  /\ events' = <<>>
  /\ cmds' = <<>>
  /\ UNCHANGED <<queueVars, isDismissingAll, toastViewsById>>

\* ---------------------------------------------------------------- toast.ts
Keys == 0..(NumKeys - 1)
ExplicitIds == 0..(NumExplicitIds - 1)
Handlers == 1..NumHandlers
NoHandler == [present |-> FALSE, onShow |-> 0, onDismiss |-> 0, onAction |-> 0]
NoMetadata ==
  [present |-> FALSE, message |-> NoId, dedupeKey |-> NoId, variant |-> "none",
   title |-> NoId, position |-> "none"]
NoSignature == [maxVisible |-> 0, maxQueue |-> 0, dropPolicy |-> ""]
NoFirst == [time |-> NoId, id |-> NoId]

\* an optional numeric field of a configure call: undefined, a non-finite
\* number (NaN, Infinity, -Infinity) or a finite number, held in halves
\* (twice = 2x) so that fractional inputs exist; a ToastDuration is such a
\* number or one of the presets 'short', 'long' and 'infinite'
Undefined == [kind |-> "undefined", twice |-> 0]
NotFinite == [kind |-> "nan", twice |-> 0]
Num(v) == [kind |-> "number", twice |-> 2 * v]
Halves(n) == [kind |-> "number", twice |-> n]
Preset(name) == [kind |-> name, twice |-> 0]
IsDefined(x) == x.kind # "undefined"
\* Number.isFinite, and a variant that accepts every number
IsFiniteAlways(x) == TRUE
IsFinite(x) == x.kind = "number"

\* Math.round: the nearest integer, halves towards +Infinity
Round(x) == (x.twice + 1) \div 2
Max(a, b) == IF a > b THEN a ELSE b

\* an optional boolean field of a configure call
UndefinedBool == [kind |-> "undefined", value |-> FALSE]
Bool(b) == [kind |-> "boolean", value |-> b]

\* a configure call that provides no field
NoConfig ==
  [duration |-> Undefined, position |-> "undefined", size |-> "undefined",
   haptics |-> UndefinedBool, announce |-> UndefinedBool,
   importance |-> "undefined", motion |-> "undefined",
   dedupeWindowMs |-> Undefined, maxVisible |-> Undefined, maxQueue |-> Undefined,
   dropPolicy |-> "undefined"]

\* nextToastId: `toast_${Date.now()}_${idCounter}`, distinct from the explicit ids
GeneratedId(counter) == NumExplicitIds + counter - 1

\* JS truthiness of a string-or-null value: null, undefined and '' are falsy
Truthy(x) == x # NoId /\ x # EmptyString

\* Map: entries in insertion order; set() on a present key keeps its place
MapHas(entries, key) == \E i \in 1..Len(entries) : entries[i].key = key
MapGet(entries, key) == entries[CHOOSE i \in 1..Len(entries) : entries[i].key = key]
MapSet(entries, key, id, timestamp) ==
  LET e == [key |-> key, id |-> id, timestamp |-> timestamp]
  IN IF MapHas(entries, key)
     THEN [i \in 1..Len(entries) |-> IF entries[i].key = key THEN e ELSE entries[i]]
     ELSE Append(entries, e)

IsStale(entry, nowMs, windowMs) == nowMs - entry.timestamp > windowMs

\* windowMs <= 0: dedupe is off; and a variant that lets 0 count as a window
WindowDisabledBelowZero(windowMs) == windowMs < 0
WindowDisabled(windowMs) == windowMs <= 0

PruneDedupeMap(entries, nowMs, windowMs) ==
  IF WindowDisabled(windowMs) THEN <<>>
  ELSE LET fresh == SelectSeq(entries, LAMBDA e : ~IsStale(e, nowMs, windowMs))
       IN IF Len(fresh) > MAX_DEDUPE_ENTRIES
          THEN SubSeq(fresh, Len(fresh) - MAX_DEDUPE_ENTRIES + 1, Len(fresh))
          ELSE fresh

\* dedupeFor, and a variant without the window: an entry of any age is a hit
DedupeForAnyAge(entries, message, dedupeKey, windowMs, nowMs) ==
  LET key == IF dedupeKey # NoId THEN dedupeKey ELSE message
  IN IF WindowDisabled(windowMs) THEN [entries |-> <<>>, id |-> NoId]
     ELSE IF ~MapHas(entries, key) THEN [entries |-> entries, id |-> NoId]
     ELSE [entries |-> entries, id |-> MapGet(entries, key).id]

\* dedupeFor: the pruned map and the id of the hit, NoId (null) on a miss
DedupeFor(entries, message, dedupeKey, windowMs, nowMs) ==
  LET pruned == PruneDedupeMap(entries, nowMs, windowMs)
      key == IF dedupeKey # NoId THEN dedupeKey ELSE message
  IN IF WindowDisabled(windowMs) THEN [entries |-> pruned, id |-> NoId]
     ELSE IF ~MapHas(pruned, key) THEN [entries |-> pruned, id |-> NoId]
     ELSE IF nowMs - MapGet(pruned, key).timestamp <= windowMs
          THEN [entries |-> pruned, id |-> MapGet(pruned, key).id]
          ELSE [entries |-> pruned, id |-> NoId]

QueueSignature(c) ==
  [maxVisible |-> c.maxVisible, maxQueue |-> c.maxQueue, dropPolicy |-> c.dropPolicy]

\* ensureQueueConfig, for the configuration c
EnsureQueueConfig(c) ==
  IF queueConfigSignature = QueueSignature(c)
  THEN UNCHANGED <<queueConfigSignature, queueConfigCalls>>
  ELSE /\ queueConfigSignature' = QueueSignature(c)
       /\ queueConfigCalls' = Append(queueConfigCalls, QueueSignature(c))

\* the action option of show and transition: undefined, null, or a label
\* with its onPress handler
NoAction == [kind |-> "undefined", label |-> NoId, onPress |-> 0]
NullAction == [kind |-> "null", label |-> NoId, onPress |-> 0]
Action(h) == [kind |-> "action", label |-> h, onPress |-> h]

\* normalizeDuration
NormalizeDuration(duration, variant) ==
  IF ~IsDefined(duration) THEN (IF variant = "loading" THEN INFINITE_MS ELSE DEFAULT_MS)
  ELSE IF duration.kind = "number" THEN Max(0, Round(duration))
  ELSE IF duration.kind = "short" THEN SHORT_MS
  ELSE IF duration.kind = "long" THEN LONG_MS
  ELSE INFINITE_MS

\* option ?? fallback for a string option, and a variant that drops the option
OrElseFallbackOnly(option, fallback) == fallback
OrElse(option, fallback) == IF option # "undefined" THEN option ELSE fallback

\* resolveAnnounce
ResolveAnnounce(importance, announce) ==
  IF IsDefined(announce) THEN announce.value
  ELSE IF importance = "low" THEN FALSE
  ELSE config.announce

\* options of show that provide no field
NoOptions ==
  [variant |-> "undefined", position |-> "undefined", size |-> "undefined",
   haptics |-> UndefinedBool, duration |-> Undefined, importance |-> "undefined",
   announce |-> UndefinedBool, title |-> NoId, onShow |-> 0]

\* the fields show resolves for the record it hands to ExpoToastModule.show
ShowRecord(options) ==
  LET variant == OrElse(options.variant, "info")
      duration == IF IsDefined(options.duration) THEN options.duration ELSE config.duration
      importance == OrElse(options.importance, config.importance)
  IN [variant |-> variant,
      position |-> OrElse(options.position, config.position),
      size |-> OrElse(options.size, config.size),
      haptics |-> IF IsDefined(options.haptics) THEN options.haptics.value
                  ELSE config.haptics,
      durationMs |-> NormalizeDuration(duration, variant),
      importance |-> importance,
      announce |-> ResolveAnnounce(importance, options.announce)]

\* show(options): id and dedupeKey may be undefined (NoId); options holds the
\* fields of NoOptions
ShowWith(optId, message, optKey, handler, action, options) ==
  LET id == IF optId # NoId THEN optId ELSE GeneratedId(idCounter + 1)
      d == DedupeFor(recentDedupe, message, optKey, config.dedupeWindowMs, now)
      dedupeKey == IF optKey # NoId THEN optKey ELSE message
  IN /\ idCounter' = IF optId # NoId THEN idCounter ELSE idCounter + 1
     /\ IF ~supported
        THEN /\ returned' = id
             /\ UNCHANGED <<recentDedupe, callbacks, activeToasts, showCalls,
                            listenersInitialized, queueConfigSignature, queueConfigCalls>>
        ELSE /\ listenersInitialized' = TRUE
             /\ EnsureQueueConfig(config)
             /\ IF Truthy(d.id)
                THEN /\ returned' = d.id
                     /\ recentDedupe' = d.entries
                     /\ UNCHANGED <<callbacks, activeToasts, showCalls>>
                ELSE /\ callbacks' = [callbacks EXCEPT
                                        ![id] = [present |-> TRUE, onShow |-> options.onShow,
                                                 onDismiss |-> handler,
                                                 onAction |-> action.onPress]]
                     /\ activeToasts' = [activeToasts EXCEPT
                                           ![id] = [present |-> TRUE, message |-> message,
                                                    dedupeKey |-> dedupeKey,
                                                    variant |-> OrElse(options.variant, "info"),
                                                    title |-> options.title,
                                                    position |-> OrElse(options.position,
                                                                        config.position)]]
                     /\ recentDedupe' =
                          IF ~WindowDisabled(config.dedupeWindowMs)
                          THEN MapSet(PruneDedupeMap(d.entries, now, config.dedupeWindowMs),
                                      dedupeKey, id, now)
                          ELSE d.entries
                     /\ showCalls' = Append(showCalls, id)
                     /\ returned' = id
     /\ UNCHANGED <<config, now, supported>>

\* show(options) with id, message, dedupeKey, onDismiss and action only
ShowOptions(optId, message, optKey, handler, action) ==
  ShowWith(optId, message, optKey, handler, action, NoOptions)

\* show(options) without an action
Show(optId, message, optKey, handler) ==
  ShowOptions(optId, message, optKey, handler, NoAction)

\* the record show hands to ExpoToastModule.show
ShowPayload(id, action, optPosition) ==
  [id |-> id,
   position |-> IF optPosition # "undefined" THEN optPosition ELSE config.position,
   actionLabel |-> action.label,
   durationMs |-> NormalizeDuration(config.duration, "info")]

\* the record transition hands to ExpoToastModule.transition
TransitionRecord(id, action) ==
  [id |-> id, actionLabel |-> action.label, clearAction |-> action.kind = "null",
   durationMs |-> <<>>]

\* the variant, title and message options of transition when none is given
NoChanges == [variant |-> "undefined", title |-> NoId, message |-> NoId]

\* transition: activeToasts.set(id, {...}), and a variant that keeps the
\* stored values
MergeMetadataKept(metadata, changes) == metadata
MergeMetadata(metadata, changes) ==
  [metadata EXCEPT
     !.variant = OrElse(changes.variant, metadata.variant),
     !.title = IF changes.title # NoId THEN changes.title ELSE metadata.title,
     !.message = IF changes.message # NoId THEN changes.message ELSE metadata.message]

\* transition(id, options): the options are action, onDismiss (0: undefined)
\* and the fields of NoChanges
TransitionWith(id, action, onDismiss, changes) ==
  LET current == callbacks[id]
  IN /\ returned' = id
     /\ IF ~supported
        THEN UNCHANGED <<callbacks, activeToasts, listenersInitialized,
                         queueConfigSignature, queueConfigCalls>>
        ELSE /\ listenersInitialized' = TRUE
             /\ EnsureQueueConfig(config)
             /\ callbacks' =
                  [callbacks EXCEPT
                     ![id] = [present |-> TRUE,
                              onShow |-> current.onShow,
                              onDismiss |-> IF onDismiss # 0 THEN onDismiss
                                            ELSE current.onDismiss,
                              onAction |-> IF action.kind = "null" THEN 0
                                           ELSE IF action.kind = "action"
                                           THEN action.onPress
                                           ELSE current.onAction]]
             /\ activeToasts' =
                  IF activeToasts[id].present
                  THEN [activeToasts EXCEPT ![id] = MergeMetadata(@, changes)]
                  ELSE activeToasts
     /\ UNCHANGED <<config, recentDedupe, idCounter, now, supported, showCalls>>

\* transition(id, options) with action and onDismiss only
Transition(id, action, onDismiss) == TransitionWith(id, action, onDismiss, NoChanges)

\* dismiss(id)
Dismiss(id) ==
  /\ IF ~supported /\ Truthy(id)
     THEN /\ callbacks' = [callbacks EXCEPT ![id] = NoHandler]
          /\ activeToasts' = [activeToasts EXCEPT ![id] = NoMetadata]
     ELSE UNCHANGED <<callbacks, activeToasts>>
  /\ returned' = NoId
  /\ UNCHANGED <<config, recentDedupe, idCounter, listenersInitialized,
                 queueConfigSignature, now, supported, showCalls, queueConfigCalls>>

\* dismissAll()
DismissAll ==
  /\ IF ~supported
     THEN /\ callbacks' = [i \in Ids |-> NoHandler]
          /\ activeToasts' = [i \in Ids |-> NoMetadata]
     ELSE UNCHANGED <<callbacks, activeToasts>>
  /\ returned' = NoId
  /\ UNCHANGED <<config, recentDedupe, idCounter, listenersInitialized,
                 queueConfigSignature, now, supported, showCalls, queueConfigCalls>>

\* the onToastDismiss listener in a variant that keeps the callbacks of the id
OnToastDismissKeepsCallbacks(id) ==
  /\ listenersInitialized
  /\ activeToasts' = [activeToasts EXCEPT ![id] = NoMetadata]
  /\ returned' = NoId
  /\ UNCHANGED <<config, recentDedupe, callbacks, idCounter, listenersInitialized,
                 queueConfigSignature, now, supported, showCalls, queueConfigCalls>>

\* the onToastDismiss listener installed by ensureListeners
OnToastDismiss(id) ==
  LET metadata == activeToasts[id]
      refresh == /\ metadata.present
                 /\ Truthy(metadata.dedupeKey)
                 /\ config.dedupeWindowMs > 0
                 /\ MapHas(recentDedupe, metadata.dedupeKey)
                 /\ MapGet(recentDedupe, metadata.dedupeKey).id = id
  IN /\ listenersInitialized
     /\ callbacks' = [callbacks EXCEPT ![id] = NoHandler]
     /\ recentDedupe' = IF refresh
                        THEN MapSet(recentDedupe, metadata.dedupeKey, id, now)
                        ELSE recentDedupe
     /\ activeToasts' = [activeToasts EXCEPT ![id] = NoMetadata]
     /\ returned' = NoId
     /\ UNCHANGED <<config, idCounter, listenersInitialized, queueConfigSignature,
                    now, supported, showCalls, queueConfigCalls>>

\* the onToastShow listener installed by ensureListeners: the callback it
\* invokes (0: none)
OnToastShow(id) ==
  IF callbacks[id].present THEN callbacks[id].onShow ELSE 0

\* the onDismiss callback the onToastDismiss listener invokes (0: none)
InvokedOnDismiss(id) ==
  IF callbacks[id].present THEN callbacks[id].onDismiss ELSE 0

\* the onToastActionPress listener installed by ensureListeners
OnToastActionPress(id) ==
  LET entry == callbacks[id]
      metadata == activeToasts[id]
  IN /\ listenersInitialized
     /\ pressed' = id
     /\ invoked' =
          IF ~metadata.present THEN <<>>
          ELSE IF ~entry.present \/ entry.onAction = 0 THEN <<>>
          ELSE <<[onPress |-> entry.onAction, id |-> id, variant |-> metadata.variant,
                  title |-> metadata.title, message |-> metadata.message,
                  position |-> metadata.position]>>
     /\ UNCHANGED <<config, recentDedupe, callbacks, activeToasts, idCounter,
                    listenersInitialized, queueConfigSignature, now, supported,
                    showCalls, queueConfigCalls, returned>>

\* normalizeQueueLimit, and a variant that does not clamp
NormalizeQueueLimitUnclamped(value, fallback, minValue) ==
  IF ~IsDefined(value) \/ ~IsFinite(value) THEN fallback ELSE Round(value)
NormalizeQueueLimit(value, fallback, minValue) ==
  IF ~IsDefined(value) \/ ~IsFinite(value) THEN fallback
  ELSE Max(minValue, Round(value))

\* if (next.x !== undefined) config.x = next.x, and a variant without the test
MergeFieldAlways(provided, nextValue, prior) == nextValue
MergeField(provided, nextValue, prior) == IF provided THEN nextValue ELSE prior

\* configure(next)
Configure(next) ==
  LET windowGiven == IsDefined(next.dedupeWindowMs) /\ IsFinite(next.dedupeWindowMs)
      c == [duration |-> MergeField(IsDefined(next.duration),
                                    next.duration, config.duration),
            position |-> MergeField(next.position # "undefined",
                                    next.position, config.position),
            size |-> MergeField(next.size # "undefined", next.size, config.size),
            haptics |-> MergeField(IsDefined(next.haptics),
                                   next.haptics.value, config.haptics),
            announce |-> MergeField(IsDefined(next.announce),
                                    next.announce.value, config.announce),
            importance |-> MergeField(next.importance # "undefined",
                                      next.importance, config.importance),
            motion |-> MergeField(next.motion # "undefined", next.motion, config.motion),
            dedupeWindowMs |-> MergeField(windowGiven,
                                          Max(0, Round(next.dedupeWindowMs)),
                                          config.dedupeWindowMs),
            maxVisible |-> MergeField(IsDefined(next.maxVisible),
                                      NormalizeQueueLimit(next.maxVisible,
                                                          DEFAULT_MAX_VISIBLE, 1),
                                      config.maxVisible),
            maxQueue |-> MergeField(IsDefined(next.maxQueue),
                                    NormalizeQueueLimit(next.maxQueue,
                                                        DEFAULT_MAX_QUEUE, 0),
                                    config.maxQueue),
            dropPolicy |-> MergeField(next.dropPolicy # "undefined",
                                      next.dropPolicy, config.dropPolicy)]
  IN /\ config' = c
     /\ recentDedupe' = IF ~windowGiven THEN recentDedupe
                        ELSE IF WindowDisabled(c.dedupeWindowMs) THEN <<>>
                        ELSE PruneDedupeMap(recentDedupe, now, c.dedupeWindowMs)
     /\ IF supported THEN EnsureQueueConfig(c)
        ELSE UNCHANGED <<queueConfigSignature, queueConfigCalls>>
     /\ returned' = NoId
     /\ UNCHANGED <<callbacks, activeToasts, idCounter, listenersInitialized,
                    now, supported, showCalls>>

\* time passes between two calls
Tick ==
  /\ now < MaxTime
  /\ now' = now + 1
  /\ returned' = NoId
  /\ UNCHANGED <<config, recentDedupe, callbacks, activeToasts, idCounter,
                 listenersInitialized, queueConfigSignature, supported,
                 showCalls, queueConfigCalls>>

InitJS ==
  /\ config = [duration |-> Undefined, position |-> "top", size |-> "fit-content",
               haptics |-> TRUE, announce |-> TRUE, importance |-> "normal",
               motion |-> "system", dedupeWindowMs |-> 0,
               maxVisible |-> DEFAULT_MAX_VISIBLE, maxQueue |-> DEFAULT_MAX_QUEUE,
               dropPolicy |-> "oldest"]
  /\ recentDedupe = <<>>
  /\ callbacks = [i \in Ids |-> NoHandler]
  /\ activeToasts = [i \in Ids |-> NoMetadata]
  /\ idCounter = 0
  /\ listenersInitialized = FALSE
  /\ queueConfigSignature = NoSignature
  /\ now = 0
  /\ showCalls = <<>>
  /\ queueConfigCalls = <<>>
  /\ returned = NoId
  /\ firstShown = [k \in Keys |-> NoFirst]
  /\ dismissedAt = [k \in Keys |-> NoFirst]

\* ------------------------------------------------ runtimeSupportsToastFor
\* Platform.Version: a number (held in halves) or a dotted string, held as
\* the sequence of its segments, a segment being a decimal number or, for
\* NotANumber, text that parseInt cannot read
NotANumber == -1
NumberVersion(n) == [kind |-> "number", twice |-> n, segments |-> <<>>]
StringVersion(segs) == [kind |-> "string", twice |-> 0, segments |-> segs]

\* Math.trunc: towards zero
Trunc(twice) == IF twice >= 0 THEN twice \div 2 ELSE 0 - ((0 - twice) \div 2)

\* parseIOSMajorVersion: '' splits into one empty segment, which parseInt
\* reads as NaN
ParseIOSMajorVersion(version) ==
  IF version.kind = "number" THEN Trunc(version.twice)
  ELSE IF version.segments = <<>> THEN 0
  ELSE IF Head(version.segments) = NotANumber THEN 0
  ELSE Head(version.segments)

\* runtimeSupportsToastFor(os, _version)
RuntimeSupportsToastFor(os, version) == os = "ios"

\* the variables of SpecGate while no call is made
InitGateIdle ==
  /\ gateOs = "ios"
  /\ gateVersion = NumberVersion(0)
  /\ gateCalled = FALSE
  /\ gateResult = FALSE

\* isSupportedRuntime, and a variant that asks the platform gate only
IsSupportedRuntimePlatformOnly(os, version, moduleAnswer) ==
  RuntimeSupportsToastFor(os, version)
IsSupportedRuntime(os, version, moduleAnswer) ==
  IF ~RuntimeSupportsToastFor(os, version) THEN FALSE ELSE moduleAnswer

NoCall == [fn |-> "none", id |-> NoId]

\* the variables of SpecRuntime while they are not in use
InitRuntimeIdle ==
  /\ moduleSupported = TRUE
  /\ nativeCalls = <<>>
  /\ lastCall = NoCall

\* the variables of SpecDefaults while they are not in use
InitDefaultsIdle ==
  /\ lastOptions = NoOptions
  /\ lastRecord = [variant |-> "none", position |-> "none", size |-> "none",
                   haptics |-> FALSE, durationMs |-> 0, importance |-> "none",
                   announce |-> FALSE]

\* no toast.promise call was made
NoPromise ==
  [phase |-> "idle", success |-> "literal", error |-> "literal", id |-> NoId,
   work |-> "pending", reason |-> "none", returned |-> "pending"]

\* no show call registered the id
NoValues ==
  [registered |-> FALSE, variant |-> "none", title |-> NoId, message |-> NoId,
   position |-> "none", onPress |-> 0]

\* the variables of SpecAction while they are not in use
InitActionIdle ==
  /\ pressed = NoId
  /\ invoked = <<>>
  /\ currentValues = [i \in Ids |-> NoValues]

\* no timer is armed for the id
NoTimer == [armed |-> FALSE, durationMs |-> 0]

\* the presenter shows nothing
InitTimerIdle ==
  /\ presenterPayloadsById = [i \in Ids |-> NoPayload]
  /\ dismissTimersById = [i \in Ids |-> NoTimer]
  /\ showAnimations = [i \in Ids |-> <<>>]

InitMore == InitActionIdle /\ InitTimerIdle /\ callbackLog = <<>>

InitExtras ==
  /\ InitGateIdle
  /\ InitRuntimeIdle
  /\ InitDefaultsIdle
  /\ promiseRun = NoPromise
  /\ InitMore

\* ------------------------------------------------------------------ Spec
Init ==
  /\ maxVisiblePerPosition = DEFAULT_MAX_VISIBLE
  /\ maxQueuePerPosition = DEFAULT_MAX_QUEUE
  /\ dropPolicy = "oldest"
  /\ visibleTop = <<>>
  /\ visibleBottom = <<>>
  /\ pendingTop = <<>>
  /\ pendingBottom = <<>>
  /\ payloadsById = [i \in Ids |-> NoPayload]
  /\ isDismissingAll = FALSE
  /\ toastViewsById = {}
  /\ dismissals = [i \in Ids |-> <<>>]
  /\ events = <<>>
  /\ cmds = <<>>
  /\ drainIds = {}
  /\ shown = <<>>
  /\ enteredVisible = <<>>
  /\ lastNext = NoConfig
  /\ configureCount = 0
  /\ actionTrace = [i \in Ids |-> <<>>]
  /\ InitExtras
  /\ showEdge = "top"
  /\ InitJS
  /\ supported = TRUE

Next ==
  \/ \E p \in NativePayloads :
       TotalQueued < MaxToasts /\ NativeShow(p) /\ UNCHANGED <<histVars, jsVars>>
  \/ \E id \in NativeIds \cup {NoId} : NativeDismiss(id) /\ UNCHANGED <<histVars, jsVars>>
  \/ \E id \in NativeIds :
       NativeTransition(NoLabelChange(id)) /\ UNCHANGED <<histVars, jsVars>>
  \/ /\ NativeDismissAll
     /\ drainIds' = SeqToSet(visibleTop) \cup SeqToSet(visibleBottom)
     /\ UNCHANGED <<showsVars, configVars, actionTrace, extraVars, jsVars>>
  \/ \E mv \in 1..MaxVisibleCfg, mq \in 0..MaxQueueCfg, dp \in DropPolicies :
       NativeSetQueueConfig(mv, mq, dp) /\ UNCHANGED <<histVars, jsVars>>
  \/ \E id \in NativeIds, i \in 1..MaxInFlight :
       /\ DismissComplete(id, i)
       /\ drainIds' = drainIds \ {id}
       /\ UNCHANGED <<showsVars, configVars, actionTrace, extraVars, jsVars>>
  \/ \E id \in NativeIds :
       PresenterInitiatedDismiss(id, "swipe") /\ UNCHANGED <<histVars, jsVars>>

Spec == Init /\ [][Next]_vars

\* ------------------------------------------------------------- SpecShows
\* The queue was configured while empty; then only show calls, each with an id
\* not used before, all on one edge.
InitShows ==
  /\ maxVisiblePerPosition \in 1..MaxVisibleCfg
  /\ maxQueuePerPosition \in 0..MaxQueueCfg
  /\ dropPolicy \in DropPolicies
  /\ visibleTop = <<>>
  /\ visibleBottom = <<>>
  /\ pendingTop = <<>>
  /\ pendingBottom = <<>>
  /\ payloadsById = [i \in Ids |-> NoPayload]
  /\ isDismissingAll = FALSE
  /\ toastViewsById = {}
  /\ dismissals = [i \in Ids |-> <<>>]
  /\ events = <<>>
  /\ cmds = <<>>
  /\ drainIds = {}
  /\ shown = <<>>
  /\ enteredVisible = <<>>
  /\ lastNext = NoConfig
  /\ configureCount = 0
  /\ actionTrace = [i \in Ids |-> <<>>]
  /\ InitExtras
  /\ showEdge \in Positions
  /\ InitJS
  /\ supported = TRUE

ShowFresh(id) ==
  /\ id \notin SeqToSet(shown)
  /\ NativeShow([id |-> id, position |-> showEdge, actionLabel |-> NoId,
                 durationMs |-> DEFAULT_MS])
  /\ shown' = Append(shown, id)
  /\ UNCHANGED <<showEdge, enteredVisible, drainIds, configVars, actionTrace, extraVars, jsVars>>

NextShows == \E id \in Ids : ShowFresh(id)

SpecShows == InitShows /\ [][NextShows]_vars

\* ------------------------------------------------------------- SpecOrder
\* The queue was configured while empty; then show calls with ids not used
\* before on either edge, dismiss calls without an id and the presenter's
\* completions.
ShowOn(id, position) ==
  /\ id \notin SeqToSet(shown)
  /\ NativeShow([id |-> id, position |-> position, actionLabel |-> NoId,
                 durationMs |-> DEFAULT_MS])
  /\ shown' = Append(shown, id)
  /\ enteredVisible' = IF cmds' # <<>>
                        THEN Append(enteredVisible, [id |-> id, by |-> "show"])
                        ELSE enteredVisible
  /\ UNCHANGED <<showEdge, drainIds, configVars, actionTrace, extraVars, jsVars>>

DismissFront ==
  /\ NativeDismiss(NoId)
  /\ UNCHANGED <<histVars, jsVars>>

Dismissed(id) ==
  /\ DismissComplete(id, 1)
  /\ enteredVisible' =
       LET rest == SelectSeq(enteredVisible, LAMBDA e : e.id # id)
       IN IF cmds' # <<>>
          THEN Append(rest, [id |-> cmds'[1].id, by |-> "promotion"])
          ELSE rest
  /\ UNCHANGED <<shown, showEdge, drainIds, configVars, actionTrace, extraVars, jsVars>>

NextOrder ==
  \/ \E id \in Ids, position \in Positions : ShowOn(id, position)
  \/ DismissFront
  \/ \E id \in Ids : Dismissed(id)

SpecOrder == InitShows /\ [][NextOrder]_vars

\* ---------------------------------------------------------------- SpecJS
\* the toast id has metadata, dedupe is on and the cache entry of its dedupe
\* key maps to it
CacheMapsKeyTo(id) ==
  /\ activeToasts[id].present
  /\ config.dedupeWindowMs > 0
  /\ MapHas(recentDedupe, activeToasts[id].dedupeKey)
  /\ MapGet(recentDedupe, activeToasts[id].dedupeKey).id = id

\* The JS runtime; the native module is the one of the tests, which records
\* the calls it receives and emits the events it is told to emit.
InitNativeIdle ==
  /\ maxVisiblePerPosition = DEFAULT_MAX_VISIBLE
  /\ maxQueuePerPosition = DEFAULT_MAX_QUEUE
  /\ dropPolicy = "oldest"
  /\ visibleTop = <<>>
  /\ visibleBottom = <<>>
  /\ pendingTop = <<>>
  /\ pendingBottom = <<>>
  /\ payloadsById = [i \in Ids |-> NoPayload]
  /\ isDismissingAll = FALSE
  /\ toastViewsById = {}
  /\ dismissals = [i \in Ids |-> <<>>]
  /\ events = <<>>
  /\ cmds = <<>>
  /\ drainIds = {}
  /\ shown = <<>>
  /\ enteredVisible = <<>>
  /\ lastNext = NoConfig
  /\ configureCount = 0
  /\ actionTrace = [i \in Ids |-> <<>>]
  /\ showEdge = "top"

InitJSRuntime ==
  /\ InitNativeIdle
  /\ InitExtras
  /\ InitJS
  /\ supported \in BOOLEAN

ConfigureInputs ==
  {[NoConfig EXCEPT !.dedupeWindowMs = w] :
     w \in {Undefined, NotFinite} \cup {Num(v) : v \in -1..MaxWindow}}

NextJS ==
  \/ \E optId \in ExplicitIds \cup {NoId}, message \in Keys,
        optKey \in Keys \cup {NoId}, handler \in Handlers :
       /\ Len(showCalls) < MaxShowCalls
       /\ optId = NoId => idCounter < MaxGenerated
       /\ Show(optId, message, optKey, handler)
       /\ firstShown' =
            IF showCalls' # showCalls
            THEN [firstShown EXCEPT ![IF optKey # NoId THEN optKey ELSE message] =
                                      [time |-> now, id |-> returned']]
            ELSE firstShown
       /\ dismissedAt' =
            IF showCalls' # showCalls
            THEN [dismissedAt EXCEPT ![IF optKey # NoId THEN optKey ELSE message] = NoFirst]
            ELSE dismissedAt
       /\ UNCHANGED <<nativeVars, histVars>>
  \/ \E id \in Ids :
       /\ id \in SeqToSet(showCalls)
       /\ OnToastDismiss(id)
       /\ dismissedAt' =
            IF CacheMapsKeyTo(id)
            THEN [dismissedAt EXCEPT ![activeToasts[id].dedupeKey] =
                                       [time |-> now, id |-> id]]
            ELSE dismissedAt
       /\ UNCHANGED <<firstShown, nativeVars, histVars>>
  \/ \E next \in ConfigureInputs :
       /\ Configure(next)
       /\ firstShown' = IF config'.dedupeWindowMs # config.dedupeWindowMs
                        THEN [k \in Keys |-> NoFirst] ELSE firstShown
       /\ dismissedAt' = IF config'.dedupeWindowMs # config.dedupeWindowMs
                         THEN [k \in Keys |-> NoFirst] ELSE dismissedAt
       /\ UNCHANGED <<nativeVars, histVars>>
  \/ Tick /\ UNCHANGED <<firstShown, dismissedAt, nativeVars, histVars>>

SpecJS == InitJSRuntime /\ [][NextJS]_vars

\* ------------------------------------------------------------ SpecConfig
\* Up to MaxConfigureCalls configure calls, each providing one field or two;
\* the numeric fields with negative, zero, fractional and non-finite values.
ConfigFields ==
  {"duration", "position", "size", "haptics", "announce", "importance", "motion",
   "dedupeWindowMs", "maxVisible", "maxQueue", "dropPolicy"}
NumericFields == {"dedupeWindowMs", "maxVisible", "maxQueue"}
NumericInputs == {NotFinite} \cup {Halves(n) : n \in (0 - MaxHalves)..MaxHalves}

FieldInputs(f) ==
  CASE f = "duration" -> {Preset("short")}
    [] f = "position" -> Positions
    [] f = "size" -> {"fit-content", "fill-width"}
    [] f \in {"haptics", "announce"} -> {Bool(TRUE), Bool(FALSE)}
    [] f = "importance" -> {"normal", "high"}
    [] f = "motion" -> {"system", "minimal"}
    [] f \in NumericFields -> NumericInputs
    [] f = "dropPolicy" -> DropPolicies

OneField == UNION {{[NoConfig EXCEPT ![f] = v] : v \in FieldInputs(f)} : f \in ConfigFields}
TwoFields ==
  UNION {{[NoConfig EXCEPT ![fg[1]] = v, ![fg[2]] = w] :
            v \in FieldInputs(fg[1]), w \in FieldInputs(fg[2])} :
         fg \in {p \in ConfigFields \X ConfigFields : p[1] # p[2]}}
AllConfigureInputs == OneField \cup TwoFields

NextConfig ==
  \E next \in AllConfigureInputs :
    /\ configureCount < MaxConfigureCalls
    /\ Configure(next)
    /\ lastNext' = next
    /\ configureCount' = configureCount + 1
    /\ UNCHANGED <<firstShown, dismissedAt, nativeVars, drainIds, showsVars, actionTrace, extraVars>>

SpecConfig == InitJSRuntime /\ [][NextConfig]_vars

\* --------------------------------------------------------------- SpecApp
\* The JS runtime in front of the native module, on a supported runtime,
\* after a configure call set the limits while nothing was shown.  A JS call
\* and the native handler it invokes are one step; the events the native
\* module emits are delivered to the JS listener one by one before the next
\* call.
InitApp ==
  /\ maxVisiblePerPosition \in 1..MaxVisibleCfg
  /\ maxQueuePerPosition = MaxQueueCfg
  /\ dropPolicy = "oldest"
  /\ visibleTop = <<>>
  /\ visibleBottom = <<>>
  /\ pendingTop = <<>>
  /\ pendingBottom = <<>>
  /\ payloadsById = [i \in Ids |-> NoPayload]
  /\ isDismissingAll = FALSE
  /\ toastViewsById = {}
  /\ dismissals = [i \in Ids |-> <<>>]
  /\ events = <<>>
  /\ cmds = <<>>
  /\ drainIds = {}
  /\ shown = <<>>
  /\ enteredVisible = <<>>
  /\ lastNext = NoConfig
  /\ configureCount = 0
  /\ actionTrace = [i \in Ids |-> <<>>]
  /\ InitExtras
  /\ showEdge = "top"
  /\ supported = TRUE
  /\ config = [duration |-> Undefined, position |-> "top", size |-> "fit-content",
               haptics |-> TRUE, announce |-> TRUE, importance |-> "normal",
               motion |-> "system", dedupeWindowMs |-> 0,
               maxVisible |-> maxVisiblePerPosition, maxQueue |-> maxQueuePerPosition,
               dropPolicy |-> dropPolicy]
  /\ queueConfigSignature = QueueSignature(config)
  /\ queueConfigCalls = <<QueueSignature(config)>>
  /\ recentDedupe = <<>>
  /\ callbacks = [i \in Ids |-> NoHandler]
  /\ activeToasts = [i \in Ids |-> NoMetadata]
  /\ idCounter = 0
  /\ listenersInitialized = FALSE
  /\ now = 0
  /\ showCalls = <<>>
  /\ returned = NoId
  /\ firstShown = [k \in Keys |-> NoFirst]
  /\ dismissedAt = [k \in Keys |-> NoFirst]

ActionOptions == {NoAction, NullAction, Action(1)}
\* the ids the app shows, and one more that is never shown
AppIds == ExplicitIds \cup {GeneratedId(1)}

\* the history of the records still registered after the step
TraceAfter(trace) ==
  [i \in Ids |-> IF payloadsById'[i] = NoPayload THEN <<>> ELSE trace[i]]

AppShow(optId, action, optPosition) ==
  /\ events = <<>>
  /\ Len(showCalls) < MaxAppShows
  /\ TotalQueued < MaxToasts
  /\ ShowWith(optId, 1, NoId, 1, action, [NoOptions EXCEPT !.position = optPosition])
  /\ IF showCalls' # showCalls
     THEN /\ NativeShow(ShowPayload(returned', action, optPosition))
          /\ actionTrace' =
               TraceAfter([actionTrace EXCEPT ![returned'] = <<action.kind>>])
     ELSE UNCHANGED <<nativeVars, actionTrace>>
  /\ UNCHANGED <<firstShown, dismissedAt, drainIds, showsVars, configVars, extraVars>>

AppTransition(id, action, onDismiss) ==
  /\ events = <<>>
  /\ Len(actionTrace[id]) <= MaxTransitions
  /\ Transition(id, action, onDismiss)
  /\ NativeTransition(TransitionRecord(id, action))
  /\ actionTrace' =
       TraceAfter([actionTrace EXCEPT
                     ![id] = IF payloadsById[id] # NoPayload
                             THEN Append(@, action.kind) ELSE @])
  /\ UNCHANGED <<firstShown, dismissedAt, drainIds, showsVars, configVars, extraVars>>

AppDismiss(id) ==
  /\ events = <<>>
  /\ Dismiss(id)
  /\ NativeDismiss(id)
  /\ actionTrace' = TraceAfter(actionTrace)
  /\ UNCHANGED <<firstShown, dismissedAt, drainIds, showsVars, configVars, extraVars>>

AppDismissed(id) ==
  /\ events = <<>>
  /\ DismissComplete(id, 1)
  /\ actionTrace' = TraceAfter(actionTrace)
  /\ UNCHANGED <<jsVars, drainIds, showsVars, configVars, extraVars>>

\* the JS listener receives the next event
DeliverDismiss ==
  /\ events # <<>>
  /\ OnToastDismiss(Head(events).id)
  /\ events' = Tail(events)
  /\ cmds' = <<>>
  /\ UNCHANGED <<queueVars, isDismissingAll, presenterVars, histVars,
                 firstShown, dismissedAt>>

NextApp ==
  \/ \E optId \in ExplicitIds, action \in {NoAction, Action(1)},
        optPosition \in {"undefined", "bottom"} : AppShow(optId, action, optPosition)
  \/ \E id \in AppIds, action \in ActionOptions : AppTransition(id, action, 0)
  \/ \E id \in AppIds : AppDismiss(id)
  \/ \E id \in AppIds : AppDismissed(id)
  \/ DeliverDismiss

SpecApp == InitApp /\ [][NextApp]_vars

\* -------------------------------------------------------------- SpecGate
\* One call of runtimeSupportsToastFor with any platform name and version.
Versions ==
  {NumberVersion(n) : n \in 0..(2 * MaxMajor + 1)}
    \cup {StringVersion(<<m>>) : m \in NotANumber..MaxMajor}
    \cup {StringVersion(<<m, n>>) : m \in NotANumber..MaxMajor, n \in {0, 9}}
    \cup {StringVersion(<<>>)}

InitGate ==
  /\ InitNativeIdle
  /\ InitJS
  /\ supported = TRUE
  /\ gateOs \in {"ios", "android", "web"}
  /\ gateVersion \in Versions
  /\ gateCalled = FALSE
  /\ gateResult = FALSE
  /\ InitRuntimeIdle
  /\ InitDefaultsIdle
  /\ promiseRun = NoPromise
  /\ InitMore

CallGate ==
  /\ ~gateCalled
  /\ gateCalled' = TRUE
  /\ gateResult' = RuntimeSupportsToastFor(gateOs, gateVersion)
  /\ UNCHANGED <<gateOs, gateVersion, nativeVars, jsVars, drainIds, showsVars,
                 configVars, actionTrace, runtimeVars, defaultsVars, promiseRun, moreVars>>

SpecGate == InitGate /\ [][CallGate]_vars

\* ----------------------------------------------------------- SpecRuntime
\* The toast API on a runtime that is supported or not: the platform is iOS
\* or Android and the native module answers isSupported() with true or false.
\* The native module is the one of the tests, which records its calls.
InitRuntime ==
  /\ InitNativeIdle
  /\ InitJS
  /\ gateOs \in {"ios", "android"}
  /\ gateVersion = NumberVersion(2 * MaxMajor)
  /\ gateCalled = FALSE
  /\ gateResult = FALSE
  /\ moduleSupported \in BOOLEAN
  /\ supported = IsSupportedRuntime(gateOs, gateVersion, moduleSupported)
  /\ nativeCalls = <<>>
  /\ lastCall = NoCall
  /\ InitDefaultsIdle
  /\ promiseRun = NoPromise
  /\ InitMore

NativeCall(fn, id) == [fn |-> fn, id |-> id]

\* the calls a step of the runtime made: ensureQueueConfig's setQueueConfig
\* first, then the call of the operation itself
CallsOf(call) ==
  (IF queueConfigCalls' # queueConfigCalls
   THEN <<NativeCall("setQueueConfig", NoId)>> ELSE <<>>) \o call

RuntimeFrame ==
  /\ Len(nativeCalls) < MaxNativeCalls
  /\ UNCHANGED <<nativeVars, firstShown, dismissedAt, drainIds, showsVars, configVars,
              actionTrace, gateVars, moduleSupported, defaultsVars, promiseRun,
              moreVars>>

RuntimeShow(optId, message, optKey, handler) ==
  /\ optId = NoId => idCounter < MaxGenerated
  /\ Show(optId, message, optKey, handler)
  /\ nativeCalls' = nativeCalls \o
       CallsOf(IF showCalls' # showCalls THEN <<NativeCall("show", returned')>> ELSE <<>>)
  /\ lastCall' = [fn |-> "show", id |-> optId]
  /\ RuntimeFrame

RuntimeTransition(id, action, onDismiss) ==
  /\ Transition(id, action, onDismiss)
  /\ nativeCalls' = nativeCalls \o
       CallsOf(IF supported THEN <<NativeCall("transition", id)>> ELSE <<>>)
  /\ lastCall' = [fn |-> "transition", id |-> id]
  /\ RuntimeFrame

RuntimeDismiss(id) ==
  /\ Dismiss(id)
  /\ nativeCalls' = nativeCalls \o
       (IF supported THEN <<NativeCall("dismiss", id)>> ELSE <<>>)
  /\ lastCall' = [fn |-> "dismiss", id |-> id]
  /\ RuntimeFrame

RuntimeDismissAll ==
  /\ DismissAll
  /\ nativeCalls' = nativeCalls \o
       (IF supported THEN <<NativeCall("dismissAll", NoId)>> ELSE <<>>)
  /\ lastCall' = [fn |-> "dismissAll", id |-> NoId]
  /\ RuntimeFrame

RuntimeConfigure(next) ==
  /\ Configure(next)
  /\ nativeCalls' = nativeCalls \o CallsOf(<<>>)
  /\ lastCall' = [fn |-> "configure", id |-> NoId]
  /\ RuntimeFrame

NextRuntime ==
  \/ \E optId \in ExplicitIds \cup {NoId}, message \in Keys, handler \in Handlers :
       RuntimeShow(optId, message, NoId, handler)
  \/ \E id \in AppIds, action \in ActionOptions, onDismiss \in {0, 1} :
       RuntimeTransition(id, action, onDismiss)
  \/ \E id \in AppIds \cup {NoId} : RuntimeDismiss(id)
  \/ RuntimeDismissAll
  \/ \E next \in ConfigureInputs \cup {[NoConfig EXCEPT !.maxVisible = Num(1)]} :
       RuntimeConfigure(next)

SpecRuntime == InitRuntime /\ [][NextRuntime]_vars

\* ---------------------------------------------------------- SpecDefaults
\* configure calls that change one default, and show calls with fresh ids
\* whose options provide up to MaxOptionFields fields, on a supported runtime.
\* The native module is the one of the tests, which records its calls.
DefaultsInputs ==
  {[NoConfig EXCEPT !.duration = d] : d \in {Preset("long"), Num(1)}}
    \cup {[NoConfig EXCEPT !.position = "bottom"], [NoConfig EXCEPT !.size = "fill-width"],
          [NoConfig EXCEPT !.haptics = Bool(FALSE)], [NoConfig EXCEPT !.importance = "low"],
          [NoConfig EXCEPT !.dropPolicy = "newest"], [NoConfig EXCEPT !.maxQueue = Num(0)]}
    \cup {[NoConfig EXCEPT !.announce = Bool(b)] : b \in BOOLEAN}
    \cup {[NoConfig EXCEPT !.maxVisible = Num(v)] : v \in 1..MaxVisibleCfg}

DefaultsOptions ==
  {o \in [variant : {"undefined", "success", "loading"}, position : {"undefined", "top"},
          size : {"undefined", "fit-content"}, haptics : {UndefinedBool, Bool(TRUE)},
          duration : {Undefined, Preset("short"), Halves(3)},
          importance : {"undefined", "high"}, announce : {UndefinedBool, Bool(TRUE)},
          title : {NoId}, onShow : {0}] :
     Cardinality({f \in DOMAIN o : o[f] # NoOptions[f]}) <= MaxOptionFields}

DefaultsConfigure(next) ==
  /\ configureCount < MaxConfigureCalls
  /\ Configure(next)
  /\ nativeCalls' = nativeCalls \o CallsOf(<<>>)
  /\ lastNext' = next
  /\ configureCount' = configureCount + 1
  /\ UNCHANGED <<nativeVars, firstShown, dismissedAt, drainIds, showsVars, actionTrace, gateVars,
                 moduleSupported, lastCall, defaultsVars, promiseRun, moreVars>>

DefaultsShow(optId, options) ==
  /\ Len(showCalls) < MaxShowCalls
  /\ optId \notin SeqToSet(showCalls)
  /\ ShowWith(optId, 1, NoId, 1, NoAction, options)
  /\ nativeCalls' = nativeCalls \o CallsOf(<<NativeCall("show", optId)>>)
  /\ lastOptions' = options
  /\ lastRecord' = ShowRecord(options)
  /\ UNCHANGED <<nativeVars, firstShown, dismissedAt, drainIds, showsVars, configVars, actionTrace,
                 gateVars, moduleSupported, lastCall, promiseRun, moreVars>>

NextDefaults ==
  \/ \E next \in DefaultsInputs : DefaultsConfigure(next)
  \/ \E optId \in ExplicitIds, options \in DefaultsOptions : DefaultsShow(optId, options)

InitDefaults == InitJSRuntime /\ supported

SpecDefaults == InitDefaults /\ [][NextDefaults]_vars

\* ----------------------------------------------------------- SpecPromise
\* One toast.promise(work, messages, options) call on a supported runtime.
\* messages.success and messages.error are a literal string, a function that
\* returns a string or a function that throws; options.loading may carry an
\* id.  `work` settles after the call; its reactions run one after the other.
MessageKinds == {"literal", "returns", "throws"}

\* a native call with the variant and the message it carries
ToastCall(fn, id, variant, message) ==
  [fn |-> fn, id |-> id, variant |-> variant, message |-> message]

\* the message of a settled promise: the literal, or what the function
\* makes of the value or the error
ResolvedMessage(kind, variant) == [text |-> variant, from |-> kind]

PromiseFrame ==
  UNCHANGED <<nativeVars, firstShown, dismissedAt, drainIds, showsVars, configVars,
              actionTrace, gateVars, moduleSupported, lastCall, defaultsVars, moreVars>>

\* promise(): withVariant('loading', messages.loading, options?.loading), then
\* work.then(...).catch(...)
Promise(optId, success, error) ==
  /\ promiseRun.phase = "idle"
  /\ Show(optId, 1, NoId, 0)
  /\ nativeCalls' = nativeCalls \o
       CallsOf(IF showCalls' # showCalls
               THEN <<ToastCall("show", returned', "loading", [text |-> "loading",
                                                              from |-> "literal"])>>
               ELSE <<>>)
  /\ promiseRun' = [phase |-> "waiting", success |-> success, error |-> error,
                    id |-> returned', work |-> "pending", reason |-> "none",
                    returned |-> "pending"]
  /\ PromiseFrame

\* `work` settles: a fulfilment runs the then-handler next, a rejection
\* passes it and runs the catch-handler
WorkSettles(outcome) ==
  /\ promiseRun.phase = "waiting"
  /\ promiseRun' = [promiseRun EXCEPT
                      !.work = outcome,
                      !.phase = IF outcome = "resolved" THEN "then" ELSE "catch",
                      !.reason = IF outcome = "resolved" THEN "none" ELSE "workError"]
  /\ UNCHANGED <<jsVars, nativeCalls>>
  /\ PromiseFrame

\* .then((value) => { ...; transition(id, {variant: 'success', ...}); return value })
OnFulfilled ==
  /\ promiseRun.phase = "then"
  /\ IF promiseRun.success = "throws"
     THEN /\ promiseRun' = [promiseRun EXCEPT !.phase = "catch", !.reason = "successError"]
          /\ UNCHANGED <<jsVars, nativeCalls>>
     ELSE /\ TransitionWith(promiseRun.id, NoAction, 0,
                           [NoChanges EXCEPT !.variant = "success", !.message = 2])
          /\ nativeCalls' = nativeCalls \o
               CallsOf(<<ToastCall("transition", promiseRun.id, "success",
                                   ResolvedMessage(promiseRun.success, "success"))>>)
          /\ promiseRun' = [promiseRun EXCEPT !.phase = "done", !.returned = "value"]
  /\ PromiseFrame

\* .catch((error) => { ...; transition(id, {variant: 'error', ...}); throw error })
OnRejected ==
  /\ promiseRun.phase = "catch"
  /\ IF promiseRun.error = "throws"
     THEN /\ promiseRun' = [promiseRun EXCEPT !.phase = "done", !.returned = "errorError"]
          /\ UNCHANGED <<jsVars, nativeCalls>>
     ELSE /\ TransitionWith(promiseRun.id, NoAction, 0,
                           [NoChanges EXCEPT !.variant = "error", !.message = 3])
          /\ nativeCalls' = nativeCalls \o
               CallsOf(<<ToastCall("transition", promiseRun.id, "error",
                                   ResolvedMessage(promiseRun.error, "error"))>>)
          /\ promiseRun' = [promiseRun EXCEPT !.phase = "done",
                                              !.returned = promiseRun.reason]
  /\ PromiseFrame

NextPromise ==
  \/ \E optId \in ExplicitIds \cup {NoId}, success \in MessageKinds, error \in MessageKinds :
       Promise(optId, success, error)
  \/ \E outcome \in {"resolved", "rejected"} : WorkSettles(outcome)
  \/ OnFulfilled
  \/ OnRejected

SpecPromise == InitDefaults /\ [][NextPromise]_vars

\* ------------------------------------------------------------ SpecAction
\* show calls with an id, a message and optional variant, title, position and
\* action; transitions that change any of variant, title, message and action;
\* dismiss events and action-press events for any id, on a supported runtime
\* with dedupe off.  The native module is the one of the tests, which emits
\* the events it is told to emit.
ActionShowOptions ==
  {[NoOptions EXCEPT !.variant = v, !.title = t, !.position = p] :
     v \in {"undefined", "error"}, t \in {NoId, 1}, p \in {"undefined", "bottom"}}

ActionChanges ==
  [variant : {"undefined", "success"}, title : {NoId, 2}, message : {NoId, 2}]

ActionFrame ==
  UNCHANGED <<nativeVars, firstShown, dismissedAt, drainIds, showsVars, configVars,
              actionTrace, gateVars, runtimeVars, defaultsVars, promiseRun, timerVars,
              callbackLog>>

ActionShow(optId, action, options) ==
  /\ Len(showCalls) < MaxActionShows
  /\ ShowWith(optId, 1, NoId, 0, action, options)
  /\ pressed' = NoId
  /\ invoked' = <<>>
  /\ currentValues' =
       [currentValues EXCEPT
          ![optId] = [registered |-> TRUE,
                      variant |-> IF options.variant = "undefined" THEN "info"
                                  ELSE options.variant,
                      title |-> options.title,
                      message |-> 1,
                      position |-> IF options.position = "undefined" THEN "top"
                                   ELSE options.position,
                      onPress |-> action.onPress]]
  /\ ActionFrame

ActionTransition(id, action, changes) ==
  LET values == currentValues[id]
  IN /\ TransitionWith(id, action, 0, changes)
     /\ pressed' = NoId
     /\ invoked' = <<>>
     /\ currentValues' =
          IF ~values.registered THEN currentValues
          ELSE [currentValues EXCEPT
                  ![id] = [registered |-> TRUE,
                           variant |-> IF changes.variant = "undefined" THEN values.variant
                                       ELSE changes.variant,
                           title |-> IF changes.title = NoId THEN values.title
                                     ELSE changes.title,
                           message |-> IF changes.message = NoId THEN values.message
                                       ELSE changes.message,
                           position |-> values.position,
                           onPress |-> IF action.kind = "undefined" THEN values.onPress
                                       ELSE action.onPress]]
     /\ ActionFrame

ActionDismissed(id) ==
  /\ OnToastDismiss(id)
  /\ pressed' = NoId
  /\ invoked' = <<>>
  /\ currentValues' = [currentValues EXCEPT ![id] = NoValues]
  /\ UNCHANGED <<firstShown, dismissedAt>>
  /\ ActionFrame

ActionPressed(id) ==
  /\ OnToastActionPress(id)
  /\ UNCHANGED <<currentValues, firstShown, dismissedAt>>
  /\ ActionFrame

NextAction ==
  \/ \E optId \in ExplicitIds, action \in {NoAction, Action(1)},
        options \in ActionShowOptions : ActionShow(optId, action, options)
  \/ \E id \in ExplicitIds, action \in {NoAction, NullAction, Action(2)},
        changes \in ActionChanges : ActionTransition(id, action, changes)
  \/ \E id \in ExplicitIds : ActionDismissed(id)
  \/ \E id \in ExplicitIds : ActionPressed(id)

SpecAction == InitDefaults /\ [][NextAction]_vars

\* ------------------------------------------------------------- SpecTimer
\* The native module with the presenter's dismiss timers: show, transition
\* and dismiss calls on one edge, and the presenter's show completions, timer
\* firings and dismiss completions in any order.  A timer fires any time
\* after it was armed (the stagger added to the interval is left out).

\* scheduleDismissIfNeeded(for:)
ScheduleDismissIfNeeded(timers, payload) ==
  IF payload.durationMs >= 0
  THEN [timers EXCEPT ![payload.id] = [armed |-> TRUE, durationMs |-> payload.durationMs]]
  ELSE timers

\* invalidate() and removal of the timer of an id
CancelTimer(timers, id) == [timers EXCEPT ![id] = NoTimer]

\* teardownWindowIfNeeded: with no view left every timer is invalidated
TeardownWindowIfNeeded(timers, views) ==
  IF views = {} THEN [i \in Ids |-> NoTimer] ELSE timers

TimerInputs ==
  [id : NativeIds, position : {"top"}, actionLabel : {NoId},
   durationMs : {DEFAULT_MS}]

TimerTransitions ==
  {[NoLabelChange(id) EXCEPT !.durationMs = d] :
     id \in NativeIds, d \in {<<>>, <<0>>, <<INFINITE_MS>>}}

InitTimer ==
  /\ maxVisiblePerPosition \in {1, DEFAULT_MAX_VISIBLE}
  /\ maxQueuePerPosition = DEFAULT_MAX_QUEUE
  /\ dropPolicy = "oldest"
  /\ visibleTop = <<>>
  /\ visibleBottom = <<>>
  /\ pendingTop = <<>>
  /\ pendingBottom = <<>>
  /\ payloadsById = [i \in Ids |-> NoPayload]
  /\ isDismissingAll = FALSE
  /\ toastViewsById = {}
  /\ dismissals = [i \in Ids |-> <<>>]
  /\ events = <<>>
  /\ cmds = <<>>
  /\ drainIds = {}
  /\ shown = <<>>
  /\ enteredVisible = <<>>
  /\ lastNext = NoConfig
  /\ configureCount = 0
  /\ actionTrace = [i \in Ids |-> <<>>]
  /\ showEdge = "top"
  /\ InitExtras
  /\ InitJS
  /\ supported = TRUE

TimerFrame == UNCHANGED <<drainIds, showsVars, configVars, actionTrace, gateVars,
                          runtimeVars, defaultsVars, promiseRun, actionVars, callbackLog,
                          jsVars>>

\* AsyncFunction("show") and ToastPresenter.present
TimerShow(payload) ==
  LET presents == cmds' # <<>> /\ payload.id \notin toastViewsById
  IN /\ TotalQueued < MaxToasts
     /\ Len(showAnimations[payload.id]) < MaxShowAnimations
     /\ NativeShow(payload)
     /\ presenterPayloadsById' =
          IF presents THEN [presenterPayloadsById EXCEPT ![payload.id] = payload]
          ELSE presenterPayloadsById
     /\ showAnimations' =
          IF presents THEN [showAnimations EXCEPT ![payload.id] = Append(@, payload)]
          ELSE showAnimations
     /\ UNCHANGED dismissTimersById
     /\ TimerFrame

\* AsyncFunction("transition") and ToastPresenter.transition
TimerTransition(transition) ==
  LET id == transition.id
      next == payloadsById'[id]
      updates == /\ cmds' # <<>>
                 /\ id \in toastViewsById
                 /\ presenterPayloadsById[id] # NoPayload
  IN /\ NativeTransition(transition)
     /\ presenterPayloadsById' =
          IF updates THEN [presenterPayloadsById EXCEPT ![id] = next]
          ELSE presenterPayloadsById
     /\ dismissTimersById' =
          IF updates THEN ScheduleDismissIfNeeded(CancelTimer(dismissTimersById, id), next)
          ELSE dismissTimersById
     /\ UNCHANGED showAnimations
     /\ TimerFrame

\* AsyncFunction("dismiss") and ToastPresenter.dismiss
TimerDismiss(id) ==
  /\ NativeDismiss(id)
  /\ dismissTimersById' =
       [i \in Ids |-> IF \E k \in 1..Len(cmds') : cmds'[k].cmd = "dismiss" /\ cmds'[k].id = i
                      THEN NoTimer ELSE dismissTimersById[i]]
  /\ UNCHANGED <<presenterPayloadsById, showAnimations>>
  /\ TimerFrame

\* the completion of a show animation: toastDidShow, then
\* scheduleDismissIfNeeded for the record that present received
ShowComplete(id) ==
  /\ showAnimations[id] # <<>>
  /\ showAnimations' = [showAnimations EXCEPT ![id] = Tail(@)]
  /\ dismissTimersById' = ScheduleDismissIfNeeded(dismissTimersById, Head(showAnimations[id]))
  /\ events' = <<[name |-> "onToastShow", id |-> id, reason |-> "none"]>>
  /\ cmds' = <<>>
  /\ UNCHANGED <<queueVars, isDismissingAll, presenterVars, presenterPayloadsById>>
  /\ TimerFrame

\* an armed timer fires: dismiss(id:reason:) with reason timeout
TimerFires(id) ==
  /\ dismissTimersById[id].armed
  /\ Len(dismissals[id]) < MaxTimerInFlight
  /\ dismissTimersById' = CancelTimer(dismissTimersById, id)
  /\ dismissals' = PresenterDismiss(dismissals, toastViewsById, id, "timeout")
  /\ events' = <<>>
  /\ cmds' = <<>>
  /\ UNCHANGED <<queueVars, isDismissingAll, toastViewsById, presenterPayloadsById,
                 showAnimations>>
  /\ TimerFrame

\* the completion of a dismiss animation: the view and the presenter's record
\* are removed, toastDidDismiss presents a promoted record, and the window is
\* torn down when no view is left
TimerDismissComplete(id, i) ==
  LET promoted == CompleteVisibleDismiss(Queue, id, ~isDismissingAll).promoted
      presents == promoted # NoInsertion /\ promoted.payload.id \notin toastViewsById \ {id}
      removed == [presenterPayloadsById EXCEPT ![id] = NoPayload]
  IN /\ presents => Len(showAnimations[promoted.payload.id]) < MaxShowAnimations
     /\ DismissComplete(id, i)
     /\ presenterPayloadsById' =
          IF presents THEN [removed EXCEPT ![promoted.payload.id] = promoted.payload]
          ELSE removed
     /\ showAnimations' =
          IF presents
          THEN [showAnimations EXCEPT ![promoted.payload.id] = Append(@, promoted.payload)]
          ELSE showAnimations
     /\ dismissTimersById' = TeardownWindowIfNeeded(dismissTimersById, toastViewsById')
     /\ TimerFrame

NextTimer ==
  \/ \E payload \in TimerInputs : TimerShow(payload)
  \/ \E transition \in TimerTransitions : TimerTransition(transition)
  \/ \E id \in NativeIds : TimerDismiss(id)
  \/ \E id \in NativeIds : ShowComplete(id)
  \/ \E id \in NativeIds : TimerFires(id)
  \/ \E id \in NativeIds, i \in 1..MaxTimerInFlight : TimerDismissComplete(id, i)

SpecTimer == InitTimer /\ [][NextTimer]_vars

\* ================================================================ claims
AllQueuedIds == visibleTop \o visibleBottom \o IdsOf(pendingTop) \o IdsOf(pendingBottom)
AnyVisible == visibleTop # <<>> \/ visibleBottom # <<>>
VisibleOf(edge) == IF edge = "top" THEN visibleTop ELSE visibleBottom
PendingOf(edge) == IF edge = "top" THEN pendingTop ELSE pendingBottom
OtherEdge(edge) == IF edge = "top" THEN "bottom" ELSE "top"
ReplacedEvent(id) == DismissEvent(id, "replaced")
Min(a, b) == IF a < b THEN a ELSE b
LastN(s, n) == SubSeq(s, Len(s) - n + 1, Len(s))
FirstN(s, n) == SubSeq(s, 1, n)

\* C1: after any sequence of operations, shows that reuse an id included,
\* every toast id occurs at most once in total across visible(top),
\* visible(bottom), pending(top) and pending(bottom).
C1_IdAtMostOnce == \A i \in Ids : Count(AllQueuedIds, i) <= 1

\* C2: after every operation an id is a key of the registry if and only if it
\* occurs in one of the four queues.
C2_RegistryIffQueued ==
  \A i \in Ids : (payloadsById[i] # NoPayload) <=> (i \in SeqToSet(AllQueuedIds))

\* C3 as stated: for show calls with distinct ids on one edge, the visible
\* list holds the first maxVisible records and pending(edge) lists every
\* later record in the order of the show calls.
C3_AllExcessPending ==
  /\ Len(VisibleOf(showEdge)) <= maxVisiblePerPosition
  /\ SeqToSet(VisibleOf(showEdge)) =
       SeqToSet(FirstN(shown, Min(Len(shown), maxVisiblePerPosition)))
  /\ IdsOf(PendingOf(showEdge)) = SubSeq(shown, maxVisiblePerPosition + 1, Len(shown))

\* C3 amended: for show calls with distinct ids on one edge, the visible list
\* never exceeds maxVisible and holds the first maxVisible records, newest
\* nearest the screen edge; pending(edge) lists, in call order, the excess
\* records that were not dropped: the last maxQueue of them under dropPolicy
\* oldest, the first maxQueue of them under dropPolicy newest.
C3_SurvivingExcessPending ==
  LET n == Len(shown)
      k == Min(n, maxVisiblePerPosition)
      excess == SubSeq(shown, maxVisiblePerPosition + 1, n)
      kept == Min(Len(excess), maxQueuePerPosition)
  IN /\ Len(VisibleOf(showEdge)) <= maxVisiblePerPosition
     /\ Len(VisibleOf(showEdge)) = k
     /\ \A j \in 1..k :
          VisibleOf(showEdge)[IF showEdge = "top" THEN k - j + 1 ELSE j] = shown[j]
     /\ IdsOf(PendingOf(showEdge)) =
          IF dropPolicy = "oldest" THEN LastN(excess, kept) ELSE FirstN(excess, kept)
     /\ VisibleOf(OtherEdge(showEdge)) = <<>>
     /\ PendingOf(OtherEdge(showEdge)) = <<>>

\* more records were shown than both limits hold: the last show call dropped
\* a record
C3_Witness ==
  /\ maxQueuePerPosition = MaxQueueCfg
  /\ Len(shown) > maxVisiblePerPosition + maxQueuePerPosition
  /\ Len(PendingOf(showEdge)) = maxQueuePerPosition

\* C4: visible(edge).length <= maxVisible holds for both edges after every
\* operation, a configure call that lowers maxVisible and later promotions
\* included.
C4_VisibleWithinLimit ==
  /\ Len(visibleTop) <= maxVisiblePerPosition
  /\ Len(visibleBottom) <= maxVisiblePerPosition

\* C5: pending(edge).length <= maxQueue holds for both edges after every
\* operation.
C5_PendingWithinLimit ==
  /\ Len(pendingTop) <= maxQueuePerPosition
  /\ Len(pendingBottom) <= maxQueuePerPosition

\* a pending queue at its limit, the last operation having dropped a record
C5_Witness ==
  /\ maxQueuePerPosition >= 1
  /\ Len(pendingTop) = maxQueuePerPosition
  /\ \E i \in Ids : events = <<ReplacedEvent(i)>>

\* C6: a show on an edge whose visible list is full and whose pending queue
\* holds maxQueue >= 1 records: under oldest the front pending record leaves
\* the queue and the registry and is reported "replaced", and the new record
\* is appended; under newest pending is unchanged, the new record is in no
\* queue and has no registry entry and is reported "replaced".  Nothing is
\* presented in either case.
C6_DropByPolicy ==
  [][\A id \in Ids :
       ( /\ ShowFresh(id)
         /\ Len(VisibleOf(showEdge)) >= maxVisiblePerPosition
         /\ maxQueuePerPosition >= 1
         /\ Len(PendingOf(showEdge)) = maxQueuePerPosition )
       => LET pending == PendingOf(showEdge)
              new == [id |-> id, position |-> showEdge, actionLabel |-> NoId,
                      durationMs |-> DEFAULT_MS]
          IN /\ cmds' = <<>>
             /\ toastViewsById' = toastViewsById
             /\ VisibleOf(showEdge)' = VisibleOf(showEdge)
             /\ IF dropPolicy = "oldest"
                THEN /\ PendingOf(showEdge)' = Append(Tail(pending), new)
                     /\ payloadsById'[Head(pending).id] = NoPayload
                     /\ payloadsById'[id] = new
                     /\ events' = <<ReplacedEvent(Head(pending).id)>>
                ELSE /\ PendingOf(showEdge)' = pending
                     /\ payloadsById'[id] = NoPayload
                     /\ id \notin SeqToSet(AllQueuedIds')
                     /\ events' = <<ReplacedEvent(id)>>
  ]_vars

\* C7: when the presenter reports dismissed(id) for an id visible on an edge,
\* the draining flag is not set and that edge's pending queue is non-empty,
\* the front pending record of that edge, and only it, is moved to the far
\* edge of that edge's visible list (top: end, bottom: index 0) and handed to
\* the presenter with placement far; the other edge is unchanged.
C7_PromotesFrontAtFarEdge ==
  [][\A id \in NativeIds, i \in 1..MaxInFlight, edge \in Positions :
       ( /\ DismissComplete(id, i)
         /\ ~isDismissingAll
         /\ id \in SeqToSet(VisibleOf(edge))
         /\ id \notin SeqToSet(VisibleOf(OtherEdge(edge)))
         /\ PendingOf(edge) # <<>> )
       => LET front == Head(PendingOf(edge))
              rest == RemoveAll(VisibleOf(edge), id)
          IN /\ PendingOf(edge)' = Tail(PendingOf(edge))
             /\ VisibleOf(edge)' =
                  IF edge = "top" THEN Append(rest, front.id) ELSE <<front.id>> \o rest
             /\ cmds' = <<[cmd |-> "present", id |-> front.id, arg |-> "farEdge"]>>
             /\ VisibleOf(OtherEdge(edge))' = VisibleOf(OtherEdge(edge))
             /\ PendingOf(OtherEdge(edge))' = PendingOf(OtherEdge(edge))
  ]_vars

\* C8: from a dismissAll call until every id that was visible at the call has
\* been reported dismissed, no step moves a record from pending to visible,
\* shows during the drain included.
PromotedBy(c) == \E k \in 1..Len(c) : c[k].cmd = "present" /\ c[k].arg = "farEdge"
C8_NoPromotionWhileDraining ==
  [][drainIds # {} =>
       /\ ~PromotedBy(cmds')
       /\ Len(pendingTop') < Len(pendingTop) => Len(visibleTop') <= Len(visibleTop)
       /\ Len(pendingBottom') < Len(pendingBottom) =>
            Len(visibleBottom') <= Len(visibleBottom)
  ]_vars

\* mid-drain: an edge was emptied by a reported dismissal while records wait
\* in its pending queue and another drained id is still to be reported
C8_Witness ==
  /\ drainIds # {}
  /\ isDismissingAll
  /\ \E edge \in Positions : VisibleOf(edge) = <<>> /\ PendingOf(edge) # <<>>
  /\ \E i \in Ids : events = <<DismissEvent(i, "programmatic")>> /\ i \notin drainIds

\* C9: the draining flag is set only if some id is in a visible list;
\* dismissAll leaves it set exactly when visible toasts exist, it stays set
\* while any visible id remains and is cleared in the step in which the
\* visible lists become empty.
C9_FlagTracksVisible ==
  /\ [](isDismissingAll => AnyVisible)
  /\ [][ /\ NativeDismissAll => (isDismissingAll' = AnyVisible')
         /\ (isDismissingAll /\ AnyVisible') => isDismissingAll'
         /\ (isDismissingAll /\ ~AnyVisible') => ~isDismissingAll'
     ]_vars

\* a drain has ended: the flag is clear, nothing is visible, and a record
\* shown during the drain is still pending because it was not promoted
C9_Witness ==
  /\ ~isDismissingAll
  /\ ~AnyVisible
  /\ drainIds = {}
  /\ pendingTop # <<>>
  /\ \E i \in Ids : events = <<DismissEvent(i, "programmatic")>> /\ cmds = <<>>

\* C10: with dedupeWindowMs = W > 0 unchanged in between, a show call made at
\* most W ms after a show call with the same dedupe key (dedupeKey, else the
\* message) that reached the native module returns that call's id and does
\* not reach the native module: the native show calls and the callback and
\* metadata maps are unchanged.
C10_SecondShowSuppressed ==
  [][\A optId \in ExplicitIds \cup {NoId}, message \in Keys,
        optKey \in Keys \cup {NoId}, handler \in Handlers :
       LET key == IF optKey # NoId THEN optKey ELSE message
       IN ( /\ Show(optId, message, optKey, handler)
            /\ supported
            /\ config.dedupeWindowMs > 0
            /\ firstShown[key] # NoFirst
            /\ now - firstShown[key].time <= config.dedupeWindowMs )
          => /\ returned' = firstShown[key].id
             /\ showCalls' = showCalls
             /\ callbacks' = callbacks
             /\ activeToasts' = activeToasts
  ]_vars

\* C11: when a dismiss event arrives for id X while the cache entry of X's
\* dedupe key still maps to X and dedupeWindowMs = W > 0, the entry is kept
\* and its timestamp becomes the time of the dismissal; a show call with that
\* key made at most W ms after the dismissal returns X and sends nothing to
\* the native module.
C11_DismissRefreshesEntry ==
  /\ [][\A id \in Ids :
         (OnToastDismiss(id) /\ id \in SeqToSet(showCalls) /\ CacheMapsKeyTo(id))
         => LET key == activeToasts[id].dedupeKey
            IN /\ MapHas(recentDedupe', key)
               /\ MapGet(recentDedupe', key).id = id
               /\ MapGet(recentDedupe', key).timestamp = now
     ]_vars
  /\ [][\A optId \in ExplicitIds \cup {NoId}, message \in Keys,
           optKey \in Keys \cup {NoId}, handler \in Handlers :
         LET key == IF optKey # NoId THEN optKey ELSE message
         IN ( /\ Show(optId, message, optKey, handler)
              /\ supported
              /\ config.dedupeWindowMs > 0
              /\ dismissedAt[key] # NoFirst
              /\ now - dismissedAt[key].time <= config.dedupeWindowMs )
            => /\ returned' = dismissedAt[key].id
               /\ showCalls' = showCalls
     ]_vars

\* C12: while dedupeWindowMs is 0 the dedupe cache is empty after every
\* operation and every show call reaches the native module, also for a
\* repeated message and also right after a configure call switched the
\* window from a positive value to 0.
C12_NoDedupeAtZero ==
  /\ [](config.dedupeWindowMs = 0 => recentDedupe = <<>>)
  /\ [][\A optId \in ExplicitIds \cup {NoId}, message \in Keys,
           optKey \in Keys \cup {NoId}, handler \in Handlers :
         (Show(optId, message, optKey, handler) /\ supported /\ config.dedupeWindowMs = 0)
         => /\ showCalls' = Append(showCalls, returned')
            /\ returned' = IF optId # NoId THEN optId
                            ELSE NumExplicitIds + idCounter' - 1
     ]_vars

\* with the window at 0 the same message was shown twice under two ids: both
\* calls reached the native module and the cache is empty
C12_Witness ==
  /\ config.dedupeWindowMs = 0
  /\ recentDedupe = <<>>
  /\ Len(showCalls) = 2
  /\ showCalls[1] # showCalls[2]
  /\ \A j \in 1..2 : /\ activeToasts[showCalls[j]].present
                      /\ activeToasts[showCalls[j]].message = 1
  /\ returned = showCalls[2]

EnteredIndex(id) == CHOOSE k \in 1..Len(enteredVisible) : enteredVisible[k].id = id
EnteredBy(id) == enteredVisible[EnteredIndex(id)].by
OldestIn(visible) ==
  CHOOSE i \in SeqToSet(visible) :
    \A j \in SeqToSet(visible) : EnteredIndex(i) <= EnteredIndex(j)
NewestIn(visible) ==
  CHOOSE i \in SeqToSet(visible) :
    \A j \in SeqToSet(visible) : EnteredIndex(i) >= EnteredIndex(j)
ShownIn(visible) == SelectSeq(visible, LAMBDA i : EnteredBy(i) = "show")
\* the toast nearest the screen edge: the one shown last among those a show
\* call made visible, else the one promoted first
NearestIn(visible) ==
  IF ShownIn(visible) # <<>> THEN NewestIn(ShownIn(visible)) ELSE OldestIn(visible)

\* what a dismiss call without an id did, given the visible id it is expected
\* to pick on each edge
DismissFrontPicks(topId, bottomId) ==
  IF visibleTop # <<>>
  THEN cmds' = <<DismissCmd(topId, "programmatic")>> /\ events' = <<>>
  ELSE IF visibleBottom # <<>>
  THEN cmds' = <<DismissCmd(bottomId, "programmatic")>> /\ events' = <<>>
  ELSE IF pendingTop # <<>>
  THEN /\ events' = <<DismissEvent(Head(pendingTop).id, "programmatic")>>
       /\ pendingTop' = Tail(pendingTop) /\ pendingBottom' = pendingBottom
       /\ cmds' = <<>>
  ELSE IF pendingBottom # <<>>
  THEN /\ events' = <<DismissEvent(Head(pendingBottom).id, "programmatic")>>
       /\ pendingBottom' = Tail(pendingBottom)
       /\ cmds' = <<>>
  ELSE events' = <<>> /\ cmds' = <<>> /\ UNCHANGED queueVars

Configured == configureCount' = configureCount + 1
DefaultConfig ==
  [duration |-> Undefined, position |-> "top", size |-> "fit-content",
   haptics |-> TRUE, announce |-> TRUE, importance |-> "normal", motion |-> "system",
   dedupeWindowMs |-> 0, maxVisible |-> 3, maxQueue |-> 50, dropPolicy |-> "oldest"]

\* C18 as stated: a configure call with a non-finite value for maxVisible,
\* maxQueue or dedupeWindowMs leaves that field at its previous value.
C18_NonFiniteKeepsPrevious ==
  [][Configured =>
       \A f \in {"dedupeWindowMs", "maxVisible", "maxQueue"} :
         lastNext'[f].kind = "nan" => config'[f] = config[f]
  ]_vars

\* C18 amended: a configure call with a non-finite dedupeWindowMs leaves the
\* window (and the dedupe cache) as it was; a non-finite maxVisible sets
\* maxVisible to its default 3 and a non-finite maxQueue sets maxQueue to its
\* default 50, whatever the previous value; none is set to zero.
C18_NonFiniteWindowKeptLimitsDefault ==
  [][Configured =>
       /\ lastNext'.dedupeWindowMs.kind = "nan" =>
            /\ config'.dedupeWindowMs = config.dedupeWindowMs
            /\ recentDedupe' = recentDedupe
       /\ lastNext'.maxVisible.kind = "nan" => config'.maxVisible = 3
       /\ lastNext'.maxQueue.kind = "nan" => config'.maxQueue = 50
  ]_vars

\* maxVisible was configured to 2 and sent to the native module, then a
\* non-finite maxVisible brought it back to the default, which was sent too
C18_Witness ==
  /\ configureCount = 2
  /\ lastNext.maxVisible.kind = "nan"
  /\ config.maxVisible = 3
  /\ Len(queueConfigCalls) = 2
  /\ queueConfigCalls[1].maxVisible = 2
  /\ queueConfigCalls[2].maxVisible = 3

\* C19: after any configure calls with arbitrary numeric inputs (negative,
\* zero, fractional, non-finite) the stored limits are integers with
\* maxVisible >= 1, maxQueue >= 0 and dedupeWindowMs >= 0, and so are the
\* limits of every setQueueConfig call sent to the native module.
C19_LimitsNormalised ==
  /\ config.maxVisible \in Int /\ config.maxVisible >= 1
  /\ config.maxQueue \in Int /\ config.maxQueue >= 0
  /\ config.dedupeWindowMs \in Int /\ config.dedupeWindowMs >= 0
  /\ \A k \in 1..Len(queueConfigCalls) :
       /\ queueConfigCalls[k].maxVisible \in Int /\ queueConfigCalls[k].maxVisible >= 1
       /\ queueConfigCalls[k].maxQueue \in Int /\ queueConfigCalls[k].maxQueue >= 0

\* maxQueue was given as 1.5 and stored as 2, then maxVisible was given as a
\* negative fraction and stored and sent as 1
C19_Witness ==
  /\ configureCount = 2
  /\ lastNext.maxVisible.kind = "number"
  /\ lastNext.maxVisible.twice = 0 - MaxHalves
  /\ config.maxVisible = 1
  /\ config.maxQueue = 2
  /\ Len(queueConfigCalls) = 2
  /\ queueConfigCalls[2] = [maxVisible |-> 1, maxQueue |-> 2, dropPolicy |-> "oldest"]

\* C20: a configure call changes exactly the fields it provides: every field
\* it omits (duration, position, size, haptics, announce, importance, motion,
\* dedupeWindowMs, maxVisible, maxQueue, dropPolicy) keeps its stored value,
\* and a provided field takes the given value (a numeric one after
\* normalisation: an integer at or above the field's minimum is stored as is).
C20_OnlyProvidedFieldsChange ==
  [][Configured =>
       /\ \A f \in {"position", "size", "importance", "motion", "dropPolicy"} :
            config'[f] = IF lastNext'[f] = "undefined" THEN config[f] ELSE lastNext'[f]
       /\ config'.duration = IF lastNext'.duration.kind = "undefined" THEN config.duration
                             ELSE lastNext'.duration
       /\ \A f \in {"haptics", "announce"} :
            config'[f] = IF lastNext'[f].kind = "undefined" THEN config[f]
                         ELSE lastNext'[f].value
       /\ \A f \in {"dedupeWindowMs", "maxVisible", "maxQueue"} :
            /\ lastNext'[f].kind = "undefined" => config'[f] = config[f]
            /\ ( /\ lastNext'[f].kind = "number"
                 /\ lastNext'[f].twice % 2 = 0
                 /\ lastNext'[f].twice >= 2 )
               => config'[f] = lastNext'[f].twice \div 2
  ]_vars

\* size was configured first; then one call provided position and haptics:
\* these three differ from the defaults and nothing else does
C20_Witness ==
  /\ configureCount = 2
  /\ lastNext = [NoConfig EXCEPT !.position = "bottom", !.haptics = Bool(FALSE)]
  /\ config = [DefaultConfig EXCEPT !.size = "fill-width", !.position = "bottom",
                                     !.haptics = FALSE]

\* the last transition that said anything about the action cleared it
ClearedLast(trace) ==
  \E k \in 1..Len(trace) :
    trace[k] = "null" /\ \A j \in (k + 1)..Len(trace) : trace[j] = "undefined"

\* C13: for a registered id, after transition(id, {action: null}), followed
\* or not by transitions that do not mention the action, the record has no
\* action label and the id has no action callback; this lasts until a
\* transition supplies a new action.
C13_ClearedActionStaysCleared ==
  \A id \in Ids :
    (payloadsById[id] # NoPayload /\ ClearedLast(actionTrace[id]))
    => /\ payloadsById[id].actionLabel = NoId
       /\ callbacks[id].onAction = 0

\* a toast shown with an action went through transition(id, {action: null})
\* and then transition(id, {}): it is visible, without label and callback
C13_Witness ==
  \E id \in Ids :
    /\ actionTrace[id] = <<"action", "null", "undefined">>
    /\ payloadsById[id] # NoPayload
    /\ payloadsById[id].actionLabel = NoId
    /\ callbacks[id].present /\ callbacks[id].onAction = 0
    /\ cmds = <<TransitionCmd(id)>>

\* the step left the registry, the queues, the callback map, the metadata
\* map and the dedupe cache as they were, with nothing for the presenter and
\* no event
NothingHappened ==
  /\ payloadsById' = payloadsById
  /\ <<visibleTop', visibleBottom', pendingTop', pendingBottom'>> =
       <<visibleTop, visibleBottom, pendingTop, pendingBottom>>
  /\ callbacks' = callbacks
  /\ activeToasts' = activeToasts
  /\ recentDedupe' = recentDedupe
  /\ cmds' = <<>>
  /\ events' = <<>>

\* C17: transition(id, options) and dismiss(id) with an id that is not in
\* the registry are no-ops: transition returns the id, and neither changes
\* the registry, the queues, the callback map, the metadata map or the
\* dedupe cache, sends a presenter command or emits an event.
C17_UnknownIdNoOp ==
  [][\A id \in AppIds :
       payloadsById[id] = NoPayload =>
         /\ \A action \in ActionOptions :
              AppTransition(id, action, 0) => (returned' = id /\ NothingHappened)
         /\ AppDismiss(id) => NothingHappened
  ]_vars

\* C24: runtimeSupportsToastFor(os, version) is true if and only if os is
\* 'ios' and the major version parsed from version is at least 26.
C24_GateIosMajor26 ==
  gateCalled =>
    (gateResult <=> (gateOs = "ios" /\ ParseIOSMajorVersion(gateVersion) >= 26))

\* C26: after every operation the callback map and the toast metadata map
\* have the same key set.
C26_CallbacksIffMetadata ==
  \A i \in Ids : callbacks[i].present <=> activeToasts[i].present

\* C23: while the platform gate fails or the native module reports
\* isSupported() false, no operation of the toast API calls the native module
\* or registers a callback, metadata or dedupe entry, and show and transition
\* return an id, the explicit one when one was given.
C23_UnsupportedIsNoOp ==
  (~RuntimeSupportsToastFor(gateOs, gateVersion) \/ ~moduleSupported) =>
    /\ nativeCalls = <<>>
    /\ showCalls = <<>>
    /\ queueConfigCalls = <<>>
    /\ \A i \in Ids : ~callbacks[i].present /\ ~activeToasts[i].present
    /\ recentDedupe = <<>>
    /\ lastCall.fn \in {"show", "transition"} =>
         /\ returned # NoId
         /\ lastCall.id # NoId => returned = lastCall.id

\* On iOS with a native module that answers isSupported() false, after a
\* configure call changed maxVisible, a show call without an id returned the
\* generated id.
C23_Witness ==
  /\ gateOs = "ios"
  /\ ~moduleSupported
  /\ config.maxVisible = 1
  /\ lastCall = [fn |-> "show", id |-> NoId]
  /\ returned = GeneratedId(1)

\* a show call just reached the native module; lastOptions' are its options
\* and lastRecord' is the record it sent
ShowSent == showCalls' # showCalls

\* the milliseconds of a duration: 2000, 4500 and -1 (infinite) for the
\* presets, a number rounded and not below 0, and without a duration -1 for
\* variant loading and 3000 otherwise
ExpectedMs(duration, variant) ==
  CASE duration.kind = "undefined" -> IF variant = "loading" THEN -1 ELSE 3000
    [] duration.kind = "short" -> 2000
    [] duration.kind = "long" -> 4500
    [] duration.kind = "infinite" -> -1
    [] duration.kind = "number" ->
         IF duration.twice < 0 THEN 0 ELSE (duration.twice + 1) \div 2

\* the fields other than announce are the explicit option, else the global
\* config value, else the hard-coded default; the last setQueueConfig call
\* carries the configured limits and went before the show call
PrecedenceAndLimits ==
  /\ lastRecord'.variant = IF lastOptions'.variant # "undefined"
                           THEN lastOptions'.variant ELSE "info"
  /\ \A f \in {"position", "size", "importance"} :
       lastRecord'[f] = IF lastOptions'[f] # "undefined" THEN lastOptions'[f] ELSE config[f]
  /\ lastRecord'.haptics = IF lastOptions'.haptics.kind # "undefined"
                           THEN lastOptions'.haptics.value ELSE config.haptics
  /\ lastRecord'.durationMs =
       ExpectedMs(IF lastOptions'.duration.kind # "undefined"
                  THEN lastOptions'.duration ELSE config.duration,
                  lastRecord'.variant)
  /\ queueConfigCalls' # <<>>
  /\ queueConfigCalls'[Len(queueConfigCalls')] = QueueSignature(config)
  /\ nativeCalls'[Len(nativeCalls')].fn = "show"
  /\ \A k \in (Len(nativeCalls) + 1)..(Len(nativeCalls') - 1) :
       nativeCalls'[k].fn = "setQueueConfig"

\* C21 as stated: show resolves each field of the record it sends by the
\* precedence explicit option > global config value > hard-coded default
\* (announce included), and the queue limits last delivered by setQueueConfig
\* before that show are those of the latest configure call.
C21_PrecedenceEveryField ==
  [][ShowSent =>
       /\ PrecedenceAndLimits
       /\ lastRecord'.announce = IF lastOptions'.announce.kind # "undefined"
                                 THEN lastOptions'.announce.value ELSE config.announce
  ]_vars

\* C21: show resolves each field of the record it sends by the precedence
\* explicit option > global config value > hard-coded default, except
\* announce, which without an explicit option is false when the resolved
\* importance is 'low' and the global config value otherwise; the queue
\* limits last delivered by setQueueConfig before that show are those of the
\* latest configure call.
C21_PrecedenceAnnounceByImportance ==
  [][ShowSent =>
       /\ PrecedenceAndLimits
       /\ lastRecord'.announce =
            IF lastOptions'.announce.kind # "undefined" THEN lastOptions'.announce.value
            ELSE IF lastRecord'.importance = "low" THEN FALSE
            ELSE config.announce
  ]_vars

\* importance 'low' and maxVisible 1 were configured, each delivered by
\* setQueueConfig or found unchanged, then a loading toast was shown without
\* other options: infinite duration, no announcement, limit 1 delivered
C21_Witness ==
  /\ config.importance = "low"
  /\ config.announce
  /\ config.maxVisible = 1
  /\ queueConfigCalls[Len(queueConfigCalls)].maxVisible = 1
  /\ lastOptions = [NoOptions EXCEPT !.variant = "loading"]
  /\ lastRecord.durationMs = -1
  /\ lastRecord.importance = "low"
  /\ ~lastRecord.announce
  /\ Len(nativeCalls) = 3
  /\ nativeCalls[3].fn = "show"

\* the transition calls the native module received
TransitionCalls == SelectSeq(nativeCalls, LAMBDA c : c.fn = "transition")

\* C22: promise issues one show with variant loading at call time and, after
\* work settled, exactly one transition on the id that show returned: variant
\* success with the resolved success message if work resolved, variant error
\* with the resolved error message if work rejected; the returned promise
\* settles with the value or the failure of work.
C22_OneShowOneTransition ==
  /\ promiseRun.phase # "idle" =>
       /\ SelectSeq(nativeCalls, LAMBDA c : c.fn = "show")
            = <<ToastCall("show", promiseRun.id, "loading",
                          [text |-> "loading", from |-> "literal"])>>
       /\ promiseRun.phase = "waiting" => TransitionCalls = <<>>
  /\ promiseRun.phase = "done" =>
       /\ promiseRun.work = "resolved" =>
            /\ TransitionCalls = <<ToastCall("transition", promiseRun.id, "success",
                                             ResolvedMessage(promiseRun.success, "success"))>>
            /\ promiseRun.returned = "value"
       /\ promiseRun.work = "rejected" =>
            /\ TransitionCalls = <<ToastCall("transition", promiseRun.id, "error",
                                             ResolvedMessage(promiseRun.error, "error"))>>
            /\ promiseRun.returned = "workError"

\* C25: when an action-press event is handled for an id that has metadata and
\* an action callback, that callback is invoked exactly once, with the id and
\* the variant, title, message and position of the show call that registered
\* the id, each overridden by the transitions since that provided it; for an
\* id without metadata no callback is invoked
C25_ActionPayloadCurrent ==
  pressed # NoId =>
    LET values == currentValues[pressed]
    IN IF values.registered /\ values.onPress # 0
       THEN invoked = <<[onPress |-> values.onPress, id |-> pressed,
                         variant |-> values.variant, title |-> values.title,
                         message |-> values.message, position |-> values.position]>>
       ELSE invoked = <<>>

\* an action press reached the callback of a toast shown with a title and
\* transitioned to another variant and message since
C25_Witness ==
  /\ pressed # NoId
  /\ Len(invoked) = 1
  /\ invoked[1].variant = "success"
  /\ invoked[1].title = 1
  /\ invoked[1].message = 2
  /\ invoked[1].position = "bottom"

\* the step is a transition call for an id that has a registry record
TransitionedKnown(id) ==
  /\ payloadsById[id] # NoPayload
  /\ Len(actionTrace'[id]) = Len(actionTrace[id]) + 1

\* the pending queue after a transition of id: the records in the same order,
\* those of id replaced by the merged record
ReplacedInPlace(pending, id, merged) ==
  [k \in 1..Len(pending) |-> IF pending[k].id = id THEN merged ELSE pending[k]]

\* every pending record is the current registry record of its id
PendingIsCurrent(pending) ==
  \A k \in 1..Len(pending) : pending[k] = payloadsById[pending[k].id]

\* C27: a transition of a known id hands the presenter one update command if
\* the id is in a visible list and none otherwise; for an id in a pending
\* queue no command is sent and the record is replaced at its index, its id
\* and edge and the order of the queue unchanged; the pending records are
\* the merged ones, so that a promotion presents the updated record
C27_CommandIffVisible ==
  [][\A id \in AppIds :
       TransitionedKnown(id) =>
         LET visible == id \in SeqToSet(visibleTop) \cup SeqToSet(visibleBottom)
             pending == id \in SeqToSet(IdsOf(pendingTop)) \cup SeqToSet(IdsOf(pendingBottom))
             merged == payloadsById'[id]
         IN /\ cmds' = IF visible THEN <<TransitionCmd(id)>> ELSE <<>>
            /\ merged.id = id
            /\ merged.position = payloadsById[id].position
            /\ visibleTop' = visibleTop
            /\ visibleBottom' = visibleBottom
            /\ pendingTop' = ReplacedInPlace(pendingTop, id, merged)
            /\ pendingBottom' = ReplacedInPlace(pendingBottom, id, merged)
            /\ pending => cmds' = <<>>
            /\ PendingIsCurrent(pendingTop)'
            /\ PendingIsCurrent(pendingBottom)']_vars

\* C28: dismissTimersById holds at most one timer per id, and an armed timer
\* belongs to an id that the presenter shows (it has a view) and whose
\* current record has a finite duration
C28_TimerOnlyForPresentedFinite ==
  \A id \in Ids :
    dismissTimersById[id].armed =>
      /\ id \in toastViewsById
      /\ presenterPayloadsById[id] # NoPayload
      /\ presenterPayloadsById[id].durationMs >= 0

\* the step is the firing of the timer of id: the timer leaves
\* dismissTimersById and neither the module nor the presenter was called
TimerFired(id) ==
  /\ dismissTimersById[id].armed
  /\ ~dismissTimersById'[id].armed
  /\ cmds' = <<>>
  /\ events' = <<>>

\* C29: a timer that fires for an id whose dismiss animation is running, or
\* whose view is gone, starts no dismissal (so that no second dismiss event
\* follows) and changes neither the queue nor the views
C29_LateTimerIsNoOp ==
  [][\A id \in NativeIds :
       (TimerFired(id) /\ (dismissals[id] # <<>> \/ id \notin toastViewsById))
         => /\ dismissals' = dismissals
            /\ toastViewsById' = toastViewsById
            /\ UNCHANGED queueVars]_vars

\* C30: the armed timer of an id the presenter shows was computed from the
\* current duration of its record, the one merged by the last transition; a
\* record with an infinite duration has no armed timer
C30_TimerFromCurrentDuration ==
  \A id \in Ids :
    (id \in toastViewsById /\ dismissTimersById[id].armed)
      => /\ presenterPayloadsById[id].durationMs >= 0
         /\ dismissTimersById[id].durationMs = presenterPayloadsById[id].durationMs

\* the records of a pending queue that a trim to maxQueue keeps, and those
\* it removes
Survivors(pending, maxQueue, policy) ==
  IF Len(pending) <= maxQueue THEN pending
  ELSE IF policy = "oldest" THEN LastN(pending, maxQueue)
  ELSE FirstN(pending, maxQueue)
Evicted(pending, maxQueue, policy) ==
  IF Len(pending) <= maxQueue THEN <<>>
  ELSE IF policy = "oldest" THEN FirstN(pending, Len(pending) - maxQueue)
  ELSE LastN(pending, Len(pending) - maxQueue)

\* C31: a setQueueConfig call leaves both visible lists as they are and cuts
\* each pending queue to the new maxQueue by the new policy: under oldest the
\* last maxQueue records stay, under newest the first maxQueue, in their
\* order; every removed record has no registry entry afterwards and is
\* reported once with reason "replaced", and nothing else is reported
C31_ReconfigureTrimsPending ==
  [][NativeSetQueueConfig(maxVisiblePerPosition', maxQueuePerPosition', dropPolicy') =>
         LET mq == maxQueuePerPosition'
             dp == dropPolicy'
             removed == Evicted(pendingTop, mq, dp) \o Evicted(pendingBottom, mq, dp)
         IN /\ visibleTop' = visibleTop
            /\ visibleBottom' = visibleBottom
            /\ pendingTop' = Survivors(pendingTop, mq, dp)
            /\ pendingBottom' = Survivors(pendingBottom, mq, dp)
            /\ Len(pendingTop') <= mq
            /\ Len(pendingBottom') <= mq
            /\ \A k \in 1..Len(removed) : payloadsById'[removed[k].id] = NoPayload
            /\ Len(events') = Len(removed)
            /\ \A k \in 1..Len(events') : events'[k].reason = "replaced"
            /\ \A i \in Ids :
                 Cardinality({k \in 1..Len(events') : events'[k].id = i})
                   = Cardinality({k \in 1..Len(removed) : removed[k].id = i})]_vars

\* a reconfiguration removed two pending records under the policy newest
\* while a toast was visible
C31_Witness ==
  /\ Len(events) = 2
  /\ \A k \in 1..Len(events) : events[k].reason = "replaced"
  /\ dropPolicy = "newest"
  /\ maxQueuePerPosition = 0
  /\ visibleTop # <<>>
  /\ pendingTop = <<>>

\* C32: with dedupeWindowMs = W > 0, a show call whose dedupe key (dedupeKey,
\* else the message) has no cache entry, or whose entry's timestamp is more
\* than W ms old, is not suppressed: it returns its own id (the id option,
\* else the generated one), registers callbacks and metadata under that id,
\* reaches the native module exactly once, and afterwards the cache entry of
\* the key maps to that id with the current time.
C32_MissCreatesAndCaches ==
  [][\A optId \in ExplicitIds \cup {NoId}, message \in Keys,
        optKey \in Keys \cup {NoId}, handler \in Handlers :
       LET key == IF optKey # NoId THEN optKey ELSE message
           own == IF optId # NoId THEN optId ELSE NumExplicitIds + idCounter
       IN ( /\ Show(optId, message, optKey, handler)
            /\ supported
            /\ config.dedupeWindowMs > 0
            /\ \A k \in 1..Len(recentDedupe) :
                 recentDedupe[k].key = key
                 => now - recentDedupe[k].timestamp > config.dedupeWindowMs )
          => /\ returned' = own
             /\ showCalls' = Append(showCalls, own)
             /\ callbacks'[own] = [present |-> TRUE, onShow |-> 0, onDismiss |-> handler,
                                   onAction |-> NoAction.onPress]
             /\ activeToasts'[own].present
             /\ activeToasts'[own].message = message
             /\ activeToasts'[own].dedupeKey = key
             /\ Cardinality({k \in 1..Len(recentDedupe') : recentDedupe'[k].key = key}) = 1
             /\ \A k \in 1..Len(recentDedupe') :
                  recentDedupe'[k].key = key
                  => recentDedupe'[k].id = own /\ recentDedupe'[k].timestamp = now
  ]_vars

\* a key was shown at time 0 under one id and, its entry having gone stale,
\* again under another id: both calls reached the native module and the
\* entry maps to the second id with the time of the second call
C32_Witness ==
  /\ config.dedupeWindowMs > 0
  /\ Len(showCalls) = 2
  /\ showCalls[1] # showCalls[2]
  /\ activeToasts[showCalls[1]].present
  /\ activeToasts[showCalls[2]].present
  /\ activeToasts[showCalls[1]].dedupeKey = activeToasts[showCalls[2]].dedupeKey
  /\ returned = showCalls[2]
  /\ now > config.dedupeWindowMs
  /\ \E k \in 1..Len(recentDedupe) :
       /\ recentDedupe[k].key = activeToasts[showCalls[2]].dedupeKey
       /\ recentDedupe[k].id = showCalls[2]
       /\ recentDedupe[k].timestamp = now

\* ------------------------------------------------------------- SpecCache
\* One configure call that switches dedupe on, then show calls with pairwise
\* distinct dedupe keys, all inside one window, up to ExtraKeys more than the
\* cache's capacity.
DistinctKeys == 1..(MAX_DEDUPE_ENTRIES + ExtraKeys)

InitCache ==
  /\ InitNativeIdle
  /\ InitExtras
  /\ InitJS
  /\ supported = TRUE

CacheConfigure(w) ==
  /\ showCalls = <<>>
  /\ config.dedupeWindowMs = 0
  /\ Configure([NoConfig EXCEPT !.dedupeWindowMs = Num(w)])
  /\ UNCHANGED <<firstShown, dismissedAt, nativeVars, histVars>>

\* the next show call: its dedupe key is one more than the number of calls
CacheShow(handler) ==
  /\ config.dedupeWindowMs > 0
  /\ Len(showCalls) + 1 \in DistinctKeys
  /\ Show(NumExplicitIds - 1, 1, Len(showCalls) + 1, handler)
  /\ UNCHANGED <<firstShown, dismissedAt, nativeVars, histVars>>

CacheTick ==
  /\ now < config.dedupeWindowMs
  /\ Len(showCalls) \in {0, MAX_DEDUPE_ENTRIES}
  /\ Tick
  /\ UNCHANGED <<firstShown, dismissedAt, nativeVars, histVars>>

NextCache ==
  \/ \E w \in 1..MaxWindow : CacheConfigure(w)
  \/ \E handler \in Handlers : CacheShow(handler)
  \/ CacheTick

SpecCache == InitCache /\ [][NextCache]_vars

\* C33: after every operation the dedupe cache holds at most
\* MAX_DEDUPE_ENTRIES entries, for show calls with distinct keys inside one
\* dedupe window; the entries a show call drops are the ones inserted
\* earliest.
C33_CacheWithinCeiling ==
  /\ [](Len(recentDedupe) <= MAX_DEDUPE_ENTRIES)
  /\ [][\A k \in 1..Len(recentDedupe') :
          recentDedupe'[k].key = Len(showCalls') - Len(recentDedupe') + k]_vars

\* C34: a dismissAll call, in one step, empties both pending queues and
\* removes their records from the registry, emits exactly one dismiss event
\* with reason "programmatic" per record that was pending (top pending before
\* bottom pending, each in queue order), sends the Presenter exactly one
\* dismiss request for each id that is visible and none for any other id,
\* and leaves both visible lists as they are.
C34_DismissAllStep ==
  [][NativeDismissAll =>
       LET pending == pendingTop \o pendingBottom
           visible == visibleTop \o visibleBottom
       IN /\ pendingTop' = <<>> /\ pendingBottom' = <<>>
          /\ \A k \in 1..Len(pending) : payloadsById'[pending[k].id] = NoPayload
          /\ Len(events') = Len(pending)
          /\ \A k \in 1..Len(pending) :
               /\ events'[k].name = "onToastDismiss"
               /\ events'[k].id = pending[k].id
               /\ events'[k].reason = "programmatic"
          /\ \A k \in 1..Len(cmds') :
               cmds'[k].cmd = "dismiss" /\ cmds'[k].arg = "programmatic"
          /\ \A i \in Ids :
               Cardinality({k \in 1..Len(cmds') : cmds'[k].id = i}) =
                 IF \E k \in 1..Len(visible) : visible[k] = i THEN 1 ELSE 0
          /\ visibleTop' = visibleTop /\ visibleBottom' = visibleBottom]_vars

\* ------------------------------------------------------------- SpecDrain
\* The native side as in Spec without transition and setQueueConfig calls,
\* with no show call while a dismissAll is draining, and a presenter that completes every dismiss animation it
\* started: the completion block of UIView.animate always runs.
NextDrain ==
  \/ \E p \in NativePayloads :
       /\ ~isDismissingAll
       /\ TotalQueued < MaxToasts
       /\ NativeShow(p)
       /\ UNCHANGED <<histVars, jsVars>>
  \/ \E id \in NativeIds \cup {NoId} : NativeDismiss(id) /\ UNCHANGED <<histVars, jsVars>>
  \/ /\ NativeDismissAll
     /\ drainIds' = SeqToSet(visibleTop) \cup SeqToSet(visibleBottom)
     /\ UNCHANGED <<showsVars, configVars, actionTrace, extraVars, jsVars>>
  \/ \E id \in NativeIds, i \in 1..MaxInFlight :
       /\ DismissComplete(id, i)
       /\ drainIds' = drainIds \ {id}
       /\ UNCHANGED <<showsVars, configVars, actionTrace, extraVars, jsVars>>
  \/ \E id \in NativeIds :
       PresenterInitiatedDismiss(id, "swipe") /\ UNCHANGED <<histVars, jsVars>>

PresenterCompletes ==
  \A id \in NativeIds :
    WF_vars(\E i \in 1..MaxInFlight :
              /\ DismissComplete(id, i)
              /\ drainIds' = drainIds \ {id}
              /\ UNCHANGED <<showsVars, configVars, actionTrace, extraVars, jsVars>>)

SpecDrain == Init /\ [][NextDrain]_vars /\ PresenterCompletes

Drained ==
  /\ visibleTop = <<>> /\ visibleBottom = <<>>
  /\ pendingTop = <<>> /\ pendingBottom = <<>>
  /\ \A i \in Ids : payloadsById[i] = NoPayload
  /\ ~isDismissingAll

C36_UnknownIdCallbackIsNoOp ==
  [][\A id \in NativeIds :
       ( /\ payloadsById[id] = NoPayload
         /\ \/ ShowComplete(id)
            \/ \E i \in 1..MaxTimerInFlight : TimerDismissComplete(id, i) )
       => /\ UNCHANGED <<queueVars, isDismissingAll>>
          /\ cmds' = <<>>
          /\ \A k \in 1..Len(events') : events'[k].name # "onToastDismiss"
  ]_vars

\* ------------------------------------------------------------- SpecPress
\* The JS runtime and the native module together as in SpecApp, every toast
\* shown with an action, without transitions; the user presses the action
\* button of a presented toast, and the JS listeners receive the action-press
\* and dismiss events in the order the native module sent them.
ActionPressEvent(id) == [name |-> "onToastActionPress", id |-> id, reason |-> "none"]

\* ToastView.actionTapHandler: toastActionPressed(id), then dismiss(id,
\* programmatic); touches reach a view that has no dismiss animation running
ActionTap(id) ==
  /\ events = <<>>
  /\ id \in toastViewsById
  /\ dismissals[id] = <<>>
  /\ events' = <<ActionPressEvent(id)>>
  /\ dismissals' = PresenterDismiss(dismissals, toastViewsById, id, "programmatic")
  /\ cmds' = <<>>
  /\ UNCHANGED <<queueVars, isDismissingAll, toastViewsById, histVars, jsVars>>

\* the onToastActionPress listener receives the next event
DeliverActionPress ==
  /\ events # <<>>
  /\ Head(events).name = "onToastActionPress"
  /\ OnToastActionPress(Head(events).id)
  /\ events' = Tail(events)
  /\ cmds' = <<>>
  /\ UNCHANGED <<queueVars, isDismissingAll, presenterVars, firstShown, dismissedAt,
                 drainIds, showsVars, configVars, actionTrace, gateVars, runtimeVars,
                 defaultsVars, promiseRun, currentValues, timerVars, callbackLog>>

NextPress ==
  \/ \E optId \in ExplicitIds, optPosition \in {"undefined", "bottom"} :
       AppShow(optId, Action(1), optPosition)
  \/ \E id \in AppIds : AppDismiss(id)
  \/ \E id \in AppIds : AppDismissed(id)
  \/ \E id \in AppIds : ActionTap(id)
  \/ events # <<>> /\ Head(events).name = "onToastDismiss" /\ DeliverDismiss
  \/ DeliverActionPress

SpecPress == InitApp /\ [][NextPress]_vars

\* C37: every action press on a presented toast is followed by a dismissal
\* of that toast with reason "programmatic", and the action-press event is
\* emitted before the dismiss event: when the JS listener receives the press
\* event, the programmatic dismissal of the id is still in progress and the
\* toast's metadata and callbacks are still registered, so the action
\* callback given at show runs.
C37_PressBeforeDismiss ==
  [][DeliverActionPress =>
       LET id == Head(events).id
       IN /\ dismissals[id] = <<"programmatic">>
          /\ activeToasts[id].present
          /\ callbacks[id].present
          /\ Len(invoked') = 1
          /\ invoked'[1].id = id
  ]_vars

\* ----------------------------------------------------------- SpecPending
\* The native side after the queue was configured: show calls with ids that
\* are not queued, dismissAll, and a presenter that confirms every request: the dismiss timer of every
\* presented toast fires and every dismiss animation completes.
PendingShow(p) ==
  /\ TotalQueued < MaxToasts
  /\ p.id \notin SeqToSet(AllQueuedIds)
  /\ NativeShow(p)
  /\ UNCHANGED <<histVars, jsVars>>

PendingDismissAll ==
  /\ NativeDismissAll
  /\ drainIds' = SeqToSet(visibleTop) \cup SeqToSet(visibleBottom)
  /\ UNCHANGED <<showsVars, configVars, actionTrace, extraVars, jsVars>>

PendingTimeout(id) ==
  /\ PresenterInitiatedDismiss(id, "timeout")
  /\ UNCHANGED <<histVars, jsVars>>

PendingDismissed(id) ==
  /\ DismissComplete(id, 1)
  /\ drainIds' = drainIds \ {id}
  /\ UNCHANGED <<showsVars, configVars, actionTrace, extraVars, jsVars>>

NextPending ==
  \/ \E p \in NativePayloads : PendingShow(p)
  \/ PendingDismissAll
  \/ \E id \in NativeIds : PendingTimeout(id)
  \/ \E id \in NativeIds : PendingDismissed(id)

PresenterConfirms ==
  \A id \in NativeIds : WF_vars(PendingTimeout(id)) /\ WF_vars(PendingDismissed(id))

SpecPending == InitApp /\ [][NextPending]_vars /\ PresenterConfirms

IsPending(id) ==
  \/ \E k \in 1..Len(pendingTop) : pendingTop[k].id = id
  \/ \E k \in 1..Len(pendingBottom) : pendingBottom[k].id = id

\* C38: when the Presenter confirms every request and every visible toast
\* has a finite duration, a record placed in a pending queue is eventually
\* promoted or reported dismissed, with no further show call needed: no
\* record stays pending forever.
C38_PendingEventuallyLeaves ==
  \A id \in NativeIds : IsPending(id) ~> ~IsPending(id)

\* -------------------------------------------------------------- SpecFifo
\* The queue was configured while empty; then show calls with ids not used
\* before on either edge, dismiss calls without an id, dismissAll calls and
\* the presenter's completions.
FifoDismissAll ==
  /\ NativeDismissAll
  /\ UNCHANGED <<histVars, jsVars>>

NextFifo ==
  \/ \E id \in Ids, position \in Positions : ShowOn(id, position)
  \/ DismissFront
  \/ FifoDismissAll
  \/ \E id \in Ids : Dismissed(id)

SpecFifo == InitShows /\ [][NextFifo]_vars

\* the show call of y came before the show call of x
ShownBefore(y, x) ==
  \E i, j \in 1..Len(shown') : i < j /\ shown'[i] = y /\ shown'[j] = x

\* C39: on one edge toasts become visible in the order of their show calls:
\* no step brings an id into visible(edge) while an id shown before it is
\* in pending(edge), whatever the interleaving of show, dismiss, dismissAll,
\* configure and the Presenter's callbacks.
C39_VisibleInShowOrder ==
  [][/\ \A x \in SeqToSet(visibleTop') \ SeqToSet(visibleTop) :
          \A k \in 1..Len(pendingTop') : ~ShownBefore(pendingTop'[k].id, x)
     /\ \A x \in SeqToSet(visibleBottom') \ SeqToSet(visibleBottom) :
          \A k \in 1..Len(pendingBottom') : ~ShownBefore(pendingBottom'[k].id, x)
  ]_vars

(***************************************************************************)
(* SpecCallbacks: the JS listeners under any sequence of events.  show     *)
(* registers an onShow and an onDismiss callback, both named by the number *)
(* of the show call; transition keeps or replaces onDismiss; the native    *)
(* side is any sequence of onToastShow and onToastDismiss events for any   *)
(* id, which includes every sequence the queue and the presenter emit.     *)
(* The callbacks return normally.                                          *)
(***************************************************************************)
TransitionHandler == MaxShowCalls + 1

CallbackFrame ==
  UNCHANGED <<nativeVars, firstShown, dismissedAt, drainIds, showsVars, configVars,
              actionTrace, gateVars, runtimeVars, defaultsVars, promiseRun, actionVars,
              timerVars>>

LogEntry(name, id, handler) ==
  [event |-> name, id |-> id, handler |-> handler,
   toast |-> IF callbacks[id].present THEN callbacks[id].onShow ELSE 0]

CallbackShow(optId) ==
  /\ Len(showCalls) < MaxShowCalls
  /\ ShowWith(optId, 1, NoId, Len(showCalls) + 1, NoAction,
              [NoOptions EXCEPT !.onShow = Len(showCalls) + 1])
  /\ UNCHANGED callbackLog
  /\ CallbackFrame

\* transition with options.onDismiss (registered once) or without it
CallbackTransition(id, onDismiss) ==
  /\ onDismiss # 0 =>
       /\ \A i \in DOMAIN callbacks : callbacks[i].onDismiss # onDismiss
       /\ \A k \in 1..Len(callbackLog) : callbackLog[k].handler # onDismiss
  /\ Transition(id, NoAction, onDismiss)
  /\ UNCHANGED callbackLog
  /\ CallbackFrame

ShowEventArrives(id) ==
  /\ listenersInitialized
  /\ Len(callbackLog) < MaxCallbackEvents
  /\ callbackLog' = Append(callbackLog, LogEntry("onToastShow", id, OnToastShow(id)))
  /\ UNCHANGED jsVars
  /\ CallbackFrame

DismissEventArrives(id) ==
  /\ Len(callbackLog) < MaxCallbackEvents
  /\ callbackLog' = Append(callbackLog, LogEntry("onToastDismiss", id, InvokedOnDismiss(id)))
  /\ OnToastDismiss(id)
  /\ CallbackFrame

NextCallbacks ==
  \/ \E optId \in ExplicitIds : CallbackShow(optId)
  \/ \E id \in ExplicitIds, h \in {0, TransitionHandler} : CallbackTransition(id, h)
  \/ \E id \in ExplicitIds : ShowEventArrives(id)
  \/ \E id \in ExplicitIds : DismissEventArrives(id)

SpecCallbacks == InitCache /\ [][NextCallbacks]_vars

OnDismissCalls(h) ==
  {k \in 1..Len(callbackLog) :
     callbackLog[k].event = "onToastDismiss" /\ callbackLog[k].handler = h}

====
